---- MODULE Spec2Model ----
(***************************************************************************)
(* QtPropertySerializer: serialize a QObject tree into a QVariantMap and   *)
(* deserialize a QVariantMap back into a (possibly preallocated) QObject   *)
(* tree, creating missing children through an ObjectFactory.               *)
(*                                                                         *)
(* The heap of QObjects is a sequence of records; an object is its index  *)
(* in the heap, NULL is 0.  A QVariant is a record [t, v] where t is the  *)
(* QVariant type and v the payload.  A QVariantMap (QMap<QString,QVariant>)*)
(* is a function from a set of keys to QVariants; QMap iterates its keys   *)
(* in ascending key order, which KeyOrder lists.                           *)
(***************************************************************************)
EXTENDS Integers, Sequences, FiniteSets, TLC

(***************************************************************************)
(* Bounds of the model.                                                    *)
(***************************************************************************)
MaxObjects == 4       \* objects of the tree the host builds under object 1
MaxExisting == 3      \* the same, when an arbitrary document is deserialized
MaxExtra == 1         \* objects the host adds to the family tree of the tests
MaxWrites == 1        \* property writes the host makes by hand
MaxInt == 1           \* integer property values range over 0..MaxInt
MaxCalls == 3         \* registerCreator calls with keys and creators of any choice
MaxFolds == 3         \* addMappedData calls on one map

NULL == 0

(***************************************************************************)
(* QVariant values.                                                        *)
(***************************************************************************)
StrV(s) == [t |-> "String", v |-> s]
IntV(i) == [t |-> "Int", v |-> i]
MapV(m) == [t |-> "Map", v |-> m]
ListV(l) == [t |-> "List", v |-> l]
ObjV(o) == [t |-> "QObjectStar", v |-> o]
ObjListV(l) == [t |-> "QObjectList", v |-> l]

EmptyMap == << >>

\* The elements of a sequence.
Range(q) == {q[i] : i \in 1..Len(q)}

\* QString::number / QVariant(int).toString() on the modelled integers.
Digits == <<"0", "1", "2", "3", "4", "5", "6", "7", "8", "9">>

\* QVariant::toString(): a null QString ("") for a map or a list.
toString(value) ==
    CASE value.t = "String" -> value.v
      [] value.t = "Int" -> Digits[value.v + 1]
      [] OTHER -> ""

\* QVariant::convert to the declared type of a property; ok is FALSE when
\* the conversion fails (a non-numeric string written to an int, a map or a
\* list written to a string or an int).
\* A conversion that only accepts a value of the declared type itself.
convertSameType(value, type) ==
    IF value.t = type THEN [ok |-> TRUE, value |-> value]
    ELSE [ok |-> FALSE, value |-> value]

convert(value, type) ==
    CASE value.t = type -> [ok |-> TRUE, value |-> value]
      [] value.t = "Int" /\ type = "String" ->
            [ok |-> TRUE, value |-> StrV(Digits[value.v + 1])]
      [] value.t = "String" /\ type = "Int" ->
            IF \E d \in 1..Len(Digits) : Digits[d] = value.v
            THEN [ok |-> TRUE,
                  value |-> IntV((CHOOSE d \in 1..Len(Digits) : Digits[d] = value.v) - 1)]
            ELSE [ok |-> FALSE, value |-> value]
      [] OTHER -> [ok |-> FALSE, value |-> value]

(***************************************************************************)
(* Keys of a QVariantMap in QMap iteration order (QString operator<, by    *)
(* code unit: upper case before lower case).                               *)
(***************************************************************************)
KeyOrder == <<"Person", "Person.h", "Pet", "QObject", "a", "b", "height",
              "heightInCm", "objectName", "pets", "readOnlyName", "species",
              "vaccinated">>

\* The keys of a map in descending order.
KeysOfDescending(data) ==
    LET n == Len(KeyOrder)
    IN SelectSeq([i \in 1..n |-> KeyOrder[n + 1 - i]], LAMBDA k : k \in DOMAIN data)

KeysOf(data) ==
    SelectSeq(KeyOrder, LAMBDA k : k \in DOMAIN data)

\* data[key] = value of QMap: insert or overwrite.
MapSet(data, key, value) ==
    [k \in (DOMAIN data) \cup {key} |-> IF k = key THEN value ELSE data[k]]

(***************************************************************************)
(* Classes of the test programs and their meta-objects.  Property 0 of     *)
(* every QObject is objectName.                                            *)
(***************************************************************************)
\* "Person.h" stands for the class Person of src/test/Person.h, which the
\* model keeps apart from the class Person of QtPropertySerializerTest.h.
\* "PersonWithPets" stands for the class Person of
\* src/test/test_QtPropertySerializer.h, which has the property pets.
Classes == {"Person", "Person.h", "PersonWithPets", "Pet", "QObject"}

MetaProperty(n, ty, r, w) == [name |-> n, type |-> ty, readable |-> r, writable |-> w]

\* Q_PROPERTY(QString readOnlyName READ objectName)
\* Q_PROPERTY(int heightInCm MEMBER heightInCm)
PersonHeaderProperties ==
    << MetaProperty("objectName", "String", TRUE, TRUE),
       MetaProperty("readOnlyName", "String", TRUE, FALSE),
       MetaProperty("heightInCm", "Int", TRUE, TRUE) >>

MetaProperties(className) ==
    CASE className = "Person.h" -> PersonHeaderProperties
      [] className = "PersonWithPets" ->
            << MetaProperty("objectName", "String", TRUE, TRUE),
               MetaProperty("height", "Int", TRUE, TRUE),
               MetaProperty("pets", "QObjectList", TRUE, TRUE) >>
      [] className = "Person" ->
            << MetaProperty("objectName", "String", TRUE, TRUE),
               MetaProperty("height", "Int", TRUE, TRUE) >>
      [] className = "Pet" ->
            << MetaProperty("objectName", "String", TRUE, TRUE),
               MetaProperty("species", "String", TRUE, TRUE) >>
      [] OTHER ->
            << MetaProperty("objectName", "String", TRUE, TRUE) >>

\* The value a default-constructed object holds in its declared members.
\* The constructor of src/test/Person.h draws heightInCm (100 + 100 * a
\* random 0 or 1); 1 stands for the value drawn, which no document of the
\* model writes (the documents write 2, "2" and "a").
DefaultProps(className) ==
    CASE className = "Person.h" -> [p \in {"heightInCm"} |-> IntV(1)]
      [] className = "PersonWithPets" ->
            [p \in {"height", "pets"} |->
                IF p = "height" THEN IntV(0) ELSE ObjListV(<< >>)]
      [] className = "Person" -> [p \in {"height"} |-> IntV(0)]
      [] className = "Pet" -> [p \in {"species"} |-> StrV("")]
      [] OTHER -> EmptyMap

\* new T(name): an object without parent, children or dynamic properties.
NewQObject(className, name) ==
    [className |-> className, objectName |-> name, parent |-> NULL,
     children |-> << >>, props |-> DefaultProps(className), dyn |-> << >>]

\* metaObject->indexOfProperty(name), 0 when the class does not declare it.
IndexOfProperty(className, name) ==
    LET mp == MetaProperties(className)
    IN IF \E i \in 1..Len(mp) : mp[i].name = name
       THEN CHOOSE i \in 1..Len(mp) : mp[i].name = name
       ELSE 0

\* Index of a dynamic property in the object's dynamic property list, or 0.
DynIndex(obj, name) ==
    IF \E i \in 1..Len(obj.dyn) : obj.dyn[i][1] = name
    THEN CHOOSE i \in 1..Len(obj.dyn) : obj.dyn[i][1] = name
    ELSE 0

\* QObject::dynamicPropertyNames(), in insertion order.
dynamicPropertyNames(obj) == [i \in 1..Len(obj.dyn) |-> obj.dyn[i][1]]

\* QObject::property(name): declared property, else dynamic property.
property(obj, name) ==
    IF name = "objectName" THEN StrV(obj.objectName)
    ELSE IF name = "readOnlyName" /\ IndexOfProperty(obj.className, name) # 0
    THEN StrV(obj.objectName)
    ELSE IF name \in DOMAIN obj.props THEN obj.props[name]
    ELSE obj.dyn[DynIndex(obj, name)][2]

\* A setProperty that writes a declared property without asking whether it
\* is writable or whether the value converts to its type.
setPropertyUnchecked(heap, object, name, value) ==
    LET obj == heap[object]
    IN IF IndexOfProperty(obj.className, name) # 0
       THEN IF name = "objectName"
            THEN [heap EXCEPT ![object].objectName = toString(value)]
            ELSE [heap EXCEPT ![object].props = MapSet(@, name, value)]
       ELSE LET d == DynIndex(obj, name)
            IN IF d # 0
               THEN [heap EXCEPT ![object].dyn[d] = <<name, value>>]
               ELSE [heap EXCEPT ![object].dyn = Append(@, <<name, value>>)]

\* QObject::setProperty(name, value): a declared property is written when it
\* is writable and the value converts to its type, and is left alone
\* otherwise; an undeclared name sets a dynamic property.
setProperty(heap, object, name, value) ==
    LET obj == heap[object]
        idx == IndexOfProperty(obj.className, name)
    IN IF idx # 0
       THEN LET mp == MetaProperties(obj.className)[idx]
                cv == convert(value, mp.type)
            IN IF mp.writable /\ cv.ok
               THEN IF name = "objectName"
                    THEN [heap EXCEPT ![object].objectName = cv.value.v]
                    ELSE [heap EXCEPT ![object].props[name] = cv.value]
               ELSE heap
       ELSE LET d == DynIndex(obj, name)
            IN IF d # 0
               THEN [heap EXCEPT ![object].dyn[d] = <<name, value>>]
               ELSE [heap EXCEPT ![object].dyn = Append(@, <<name, value>>)]

\* A setParent that puts the child in front of the children of the object.
setParentFront(heap, child, object) ==
    [heap EXCEPT ![child].parent = object,
                 ![object].children = <<child>> \o @]

\* child->setParent(object) for a child that has no parent yet.
setParent(heap, child, object) ==
    [heap EXCEPT ![child].parent = object,
                 ![object].children = Append(@, child)]

(***************************************************************************)
(* QObject::findChildren<QObject*>(name): every descendant, in pre-order,  *)
(* whose objectName is name; a null name matches every descendant.  The    *)
(* search is recursive (Qt::FindChildrenRecursively is the default).       *)
(***************************************************************************)
RECURSIVE findChildrenIn(_, _, _)
findChildrenIn(heap, kids, name) ==
    IF kids = << >> THEN << >>
    ELSE LET c == Head(kids)
         IN (IF name = "" \/ heap[c].objectName = name THEN <<c>> ELSE << >>)
            \o findChildrenIn(heap, heap[c].children, name)
            \o findChildrenIn(heap, Tail(kids), name)

findChildren(heap, object, name) == findChildrenIn(heap, heap[object].children, name)

(***************************************************************************)
(* serialize and addMappedData.                                            *)
(***************************************************************************)
RECURSIVE serialize(_, _, _, _)
RECURSIVE addMappedData(_, _, _, _)
RECURSIVE serializeProperties(_, _, _, _, _)
RECURSIVE serializeDynamic(_, _, _, _)
RECURSIVE serializeChildren(_, _, _, _, _)
RECURSIVE serializeChildrenByName(_, _, _, _, _)
RECURSIVE serializeList(_, _)

\* The QList<QObject*> overload called with the default arguments.
serializeList(heap, objects) ==
    IF objects = << >> THEN << >>
    ELSE <<MapV(serialize(heap, Head(objects), -1, TRUE))>>
         \o serializeList(heap, Tail(objects))

\* addMappedData that stores the first value under a key as a one-element list.
addMappedDataAsList(heap, data, key, value) ==
    IF value.t = "QObjectStar"
    THEN addMappedData(heap, data, key, MapV(serialize(heap, value.v, -1, TRUE)))
    ELSE IF value.t = "QObjectList"
    THEN addMappedData(heap, data, key, ListV(serializeList(heap, value.v)))
    ELSE IF key \in DOMAIN data
         THEN MapSet(data, key, ListV(Append(data[key].v, value)))
         ELSE MapSet(data, key, ListV(<<value>>))

addMappedData(heap, data, key, value) ==
    IF value.t = "QObjectStar"
    THEN addMappedData(heap, data, key, MapV(serialize(heap, value.v, -1, TRUE)))
    ELSE IF value.t = "QObjectList"
    THEN addMappedData(heap, data, key, ListV(serializeList(heap, value.v)))
    ELSE IF key \in DOMAIN data
         THEN IF data[key].t = "List"
              THEN MapSet(data, key, ListV(Append(data[key].v, value)))
              ELSE MapSet(data, key, ListV(<<data[key], value>>))
         ELSE MapSet(data, key, value)

\* The loop over the declared properties, from property i on.
serializeProperties(heap, object, i, includeReadOnlyProperties, data) ==
    LET mps == MetaProperties(heap[object].className)
    IN IF i > Len(mps) THEN data
       ELSE LET mp == mps[i]
                d1 == IF mp.readable /\ (includeReadOnlyProperties \/ mp.writable)
                      THEN addMappedData(heap, data, mp.name,
                                         property(heap[object], mp.name))
                      ELSE data
            IN serializeProperties(heap, object, i + 1, includeReadOnlyProperties, d1)

\* The loop over the dynamic property names.
serializeDynamic(heap, object, names, data) ==
    IF names = << >> THEN data
    ELSE serializeDynamic(heap, object, Tail(names),
             addMappedData(heap, data, Head(names),
                           property(heap[object], Head(names))))

\* A loop over the children that keys a named child by its objectName.
serializeChildrenByName(heap, kids, childDepth, includeReadOnlyProperties, data) ==
    IF kids = << >> THEN data
    ELSE serializeChildrenByName(heap, Tail(kids), childDepth,
             includeReadOnlyProperties,
             addMappedData(heap, data,
                 IF heap[Head(kids)].objectName # ""
                 THEN heap[Head(kids)].objectName
                 ELSE heap[Head(kids)].className,
                 MapV(serialize(heap, Head(kids), childDepth,
                                includeReadOnlyProperties))))

\* The loop over the children, keyed by class name.
serializeChildren(heap, kids, childDepth, includeReadOnlyProperties, data) ==
    IF kids = << >> THEN data
    ELSE serializeChildren(heap, Tail(kids), childDepth, includeReadOnlyProperties,
             addMappedData(heap, data, heap[Head(kids)].className,
                 MapV(serialize(heap, Head(kids), childDepth,
                                includeReadOnlyProperties))))

\* A serialize that hands its depth argument to the children as it is.
serializeSameDepth(heap, object, childDepth, includeReadOnlyProperties) ==
    IF object = NULL THEN EmptyMap
    ELSE LET d1 == serializeProperties(heap, object, 1, includeReadOnlyProperties,
                                       EmptyMap)
             d2 == serializeDynamic(heap, object,
                                    dynamicPropertyNames(heap[object]), d1)
         IN IF childDepth = -1 \/ childDepth > 0
            THEN serializeChildren(heap, heap[object].children, childDepth,
                                   includeReadOnlyProperties, d2)
            ELSE d2

serialize(heap, object, childDepth, includeReadOnlyProperties) ==
    IF object = NULL THEN EmptyMap
    ELSE LET d1 == serializeProperties(heap, object, 1, includeReadOnlyProperties,
                                       EmptyMap)
             d2 == serializeDynamic(heap, object,
                                    dynamicPropertyNames(heap[object]), d1)
         IN IF childDepth = -1 \/ childDepth > 0
            THEN serializeChildren(heap, heap[object].children,
                     IF childDepth > 0 THEN childDepth - 1 ELSE childDepth,
                     includeReadOnlyProperties, d2)
            ELSE d2

(***************************************************************************)
(* QtObjectPropertySerializer.h: serialize with the flag includeObjectName. *)
(***************************************************************************)
RECURSIVE QtObjectPropertySerializer_serialize(_, _, _, _, _)
RECURSIVE QtObjectPropertySerializer_serializeChildren(_, _, _, _, _)

\* addMappedData of this header: the fold alone, whatever the value.
QtObjectPropertySerializer_addMappedData(data, key, value) ==
    IF key \in DOMAIN data
    THEN IF data[key].t = "List"
         THEN MapSet(data, key, ListV(Append(data[key].v, value)))
         ELSE MapSet(data, key, ListV(<<data[key], value>>))
    ELSE MapSet(data, key, value)

\* The loop over the declared properties, from property i on.
RECURSIVE QtObjectPropertySerializer_serializeProperties(_, _, _, _, _, _)
QtObjectPropertySerializer_serializeProperties(heap, object, i, includeReadOnlyProperties, includeObjectName, data) ==
    LET mps == MetaProperties(heap[object].className)
    IN IF i > Len(mps) THEN data
       ELSE LET mp == mps[i]
                d1 == IF /\ mp.readable
                         /\ (includeReadOnlyProperties \/ mp.writable)
                         /\ (includeObjectName \/ mp.name # "objectName")
                      THEN QtObjectPropertySerializer_addMappedData(data, mp.name,
                               property(heap[object], mp.name))
                      ELSE data
            IN QtObjectPropertySerializer_serializeProperties(heap, object, i + 1,
                   includeReadOnlyProperties, includeObjectName, d1)

\* The loop over the dynamic property names.
RECURSIVE QtObjectPropertySerializer_serializeDynamic(_, _, _, _)
QtObjectPropertySerializer_serializeDynamic(heap, object, names, data) ==
    IF names = << >> THEN data
    ELSE QtObjectPropertySerializer_serializeDynamic(heap, object, Tail(names),
             QtObjectPropertySerializer_addMappedData(data, Head(names),
                 property(heap[object], Head(names))))

\* The loop over the children: serialize(child, childDepth,
\* includeReadOnlyProperties), the fourth argument taking its default, true.
QtObjectPropertySerializer_serializeChildren(heap, kids, childDepth, includeReadOnlyProperties, data) ==
    IF kids = << >> THEN data
    ELSE QtObjectPropertySerializer_serializeChildren(heap, Tail(kids), childDepth,
             includeReadOnlyProperties,
             QtObjectPropertySerializer_addMappedData(data,
                 heap[Head(kids)].className,
                 MapV(QtObjectPropertySerializer_serialize(heap, Head(kids),
                          childDepth, includeReadOnlyProperties, TRUE))))

QtObjectPropertySerializer_serialize(heap, object, childDepth, includeReadOnlyProperties, includeObjectName) ==
    IF object = NULL THEN EmptyMap
    ELSE LET d1 == QtObjectPropertySerializer_serializeProperties(heap, object, 1,
                       includeReadOnlyProperties, includeObjectName, EmptyMap)
             d2 == QtObjectPropertySerializer_serializeDynamic(heap, object,
                       dynamicPropertyNames(heap[object]), d1)
         IN IF childDepth = -1 \/ childDepth > 0
            THEN QtObjectPropertySerializer_serializeChildren(heap,
                     heap[object].children,
                     IF childDepth > 0 THEN childDepth - 1 ELSE childDepth,
                     includeReadOnlyProperties, d2)
            ELSE d2

(***************************************************************************)
(* ObjectSerializerQt.h: children keyed by objectName, else by class name.  *)
(***************************************************************************)
RECURSIVE ObjectSerializerQt_serialize(_, _, _)
RECURSIVE ObjectSerializerQt_serializeChildren(_, _, _, _)

\* An addMappedData that never appends to the list it finds under the name: it
\* pairs what is there with the value.
ObjectSerializerQt_addMappedDataNested(data, name, value) ==
    IF name \in DOMAIN data
    THEN MapSet(data, name, ListV(<<data[name], value>>))
    ELSE MapSet(data, name, value)

ObjectSerializerQt_addMappedData(data, name, value) ==
    IF name \in DOMAIN data
    THEN IF data[name].t = "List"
         THEN MapSet(data, name, ListV(Append(data[name].v, value)))
         ELSE MapSet(data, name, ListV(<<data[name], value>>))
    ELSE MapSet(data, name, value)

\* The loop over the declared properties: data[propertyName] = propertyValue,
\* objectName left out.
RECURSIVE ObjectSerializerQt_serializeProperties(_, _, _, _, _)
ObjectSerializerQt_serializeProperties(heap, object, i, includeReadOnlyProperties, data) ==
    LET mps == MetaProperties(heap[object].className)
    IN IF i > Len(mps) THEN data
       ELSE LET mp == mps[i]
                d1 == IF /\ mp.readable
                         /\ (includeReadOnlyProperties \/ mp.writable)
                         /\ mp.name # "objectName"
                      THEN MapSet(data, mp.name, property(heap[object], mp.name))
                      ELSE data
            IN ObjectSerializerQt_serializeProperties(heap, object, i + 1,
                   includeReadOnlyProperties, d1)

\* childName = objectName().size() ? objectName() : className()
childName(obj) == IF obj.objectName # "" THEN obj.objectName ELSE obj.className

ObjectSerializerQt_serializeChildren(heap, kids, includeReadOnlyProperties, data) ==
    IF kids = << >> THEN data
    ELSE ObjectSerializerQt_serializeChildren(heap, Tail(kids),
             includeReadOnlyProperties,
             ObjectSerializerQt_addMappedData(data, childName(heap[Head(kids)]),
                 MapV(ObjectSerializerQt_serialize(heap, Head(kids),
                          includeReadOnlyProperties))))

ObjectSerializerQt_serialize(heap, object, includeReadOnlyProperties) ==
    ObjectSerializerQt_serializeChildren(heap, heap[object].children,
        includeReadOnlyProperties,
        ObjectSerializerQt_serializeProperties(heap, object, 1,
            includeReadOnlyProperties, EmptyMap))

(***************************************************************************)
(* ObjectFactory.  A creator is modelled by the class it constructs        *)
(* (defaultCreator<T>); creators is the QMap of (key, creator) pairs.  A   *)
(* factory argument is a record: isNull for a NULL pointer.                *)
(***************************************************************************)
\* The objects that the property values of an object point to: a QObject* or
\* the members of a QList<QObject*>, which addMappedData serializes.
PointedTo(obj) ==
    LET values == {obj.props[p] : p \in DOMAIN obj.props}
                  \cup {obj.dyn[i][2] : i \in 1..Len(obj.dyn)}
    IN {v.v : v \in {w \in values : w.t = "QObjectStar"}} \cup
       UNION {Range(v.v) : v \in {w \in values : w.t = "QObjectList"}}

\* serialize(object, childDepth) never returns: a call of serialize on an
\* object is reached from within a call on the same object.  stack holds the
\* objects of the calls that have not returned.
RECURSIVE serializeDiverges(_, _, _, _)
serializeDiverges(heap, object, childDepth, stack) ==
    IF object = NULL THEN FALSE
    ELSE IF object \in stack THEN TRUE
    ELSE \/ \E x \in PointedTo(heap[object]) :
              serializeDiverges(heap, x, -1, stack \cup {object})
         \/ /\ childDepth # 0
            /\ \E c \in Range(heap[object].children) :
                  serializeDiverges(heap, c,
                      IF childDepth > 0 THEN childDepth - 1 ELSE childDepth,
                      stack \cup {object})

NullFactory == [isNull |-> TRUE, creators |-> EmptyMap]
FactoryPtr(creators) == [isNull |-> FALSE, creators |-> creators]

\* A registerCreator that keeps the creator a key already has.
registerCreatorOnce(creators, key, creator) ==
    IF key \in DOMAIN creators THEN creators ELSE MapSet(creators, key, creator)

\* creators[key] = creator;
registerCreator(creators, key, creator) ==
    MapSet(creators, key, creator)
hasCreator(f, key) == key \in DOMAIN f.creators

\* factory->create(key): the new object appended to the heap, or NULL.
create(heap, f, key) ==
    IF key \in DOMAIN f.creators
    THEN [heap |-> Append(heap, NewQObject(f.creators[key], "")),
          object |-> Len(heap) + 1]
    ELSE [heap |-> heap, object |-> NULL]

(***************************************************************************)
(* deserialize.                                                            *)
(***************************************************************************)
\* A search of a list that takes its last object of the class.
LastOfClass(heap, objects, className) ==
    IF \E i \in 1..Len(objects) : heap[objects[i]].className = className
    THEN objects[CHOOSE i \in 1..Len(objects) :
                    /\ heap[objects[i]].className = className
                    /\ \A j \in (i + 1)..Len(objects) :
                          heap[objects[j]].className # className]
    ELSE NULL

\* The first object of a list whose class is className, or NULL.
FirstOfClass(heap, objects, className) ==
    IF \E i \in 1..Len(objects) : heap[objects[i]].className = className
    THEN objects[CHOOSE i \in 1..Len(objects) :
                    /\ heap[objects[i]].className = className
                    /\ \A j \in 1..(i - 1) : heap[objects[j]].className # className]
    ELSE NULL

\* A search of a list that takes its first object whatever its objectName.
FirstNamedAny(heap, objects, name) ==
    IF objects = << >> THEN NULL ELSE Head(objects)

\* The first object of a list whose objectName is name, or NULL.
FirstNamed(heap, objects, name) ==
    IF \E i \in 1..Len(objects) : heap[objects[i]].objectName = name
    THEN objects[CHOOSE i \in 1..Len(objects) :
                    /\ heap[objects[i]].objectName = name
                    /\ \A j \in 1..(i - 1) : heap[objects[j]].objectName # name]
    ELSE NULL

\* A removeOne that leaves the list as it is.
removeNone(objects, o) ==
    objects

\* QList::removeOne.
removeOne(objects, o) ==
    SelectSeq(objects, LAMBDA x : x # o)

\* "Attempt to create one dynamically": a plain QObject needs no factory.
createChild(heap, object, className, f) ==
    LET made == IF className = "QObject"
                THEN [heap |-> Append(heap, NewQObject("QObject", "")),
                      object |-> Len(heap) + 1]
                ELSE IF ~f.isNull /\ hasCreator(f, className)
                THEN create(heap, f, className)
                ELSE [heap |-> heap, object |-> NULL]
    IN IF made.object # NULL
       THEN [heap |-> setParent(made.heap, made.object, object),
             object |-> made.object]
       ELSE made

RECURSIVE deserialize(_, _, _, _)
RECURSIVE deserializeEntries(_, _, _, _, _)
RECURSIVE deserializeChild(_, _, _, _, _)
RECURSIVE deserializeList(_, _, _, _, _, _, _)

\* A map branch that falls back on the first child of the class when no
\* object carries the declared name.
deserializeChildFallback(heap, object, className, childData, f) ==
    LET byName == IF "objectName" \in DOMAIN childData
                  THEN FirstOfClass(heap,
                           findChildren(heap, object,
                                        toString(childData["objectName"])),
                           className)
                  ELSE NULL
        found == IF byName # NULL THEN byName
                 ELSE FirstOfClass(heap, heap[object].children, className)
    IN IF found # NULL
       THEN deserialize(heap, found, childData, f)
       ELSE LET made == createChild(heap, object, className, f)
            IN IF made.object # NULL
               THEN deserialize(made.heap, made.object, childData, f)
               ELSE heap

\* An entry whose value is a map: a child object.
deserializeChild(heap, object, className, childData, f) ==
    LET candidates == IF "objectName" \in DOMAIN childData
                      THEN findChildren(heap, object,
                                        toString(childData["objectName"]))
                      ELSE heap[object].children
        found == FirstOfClass(heap, candidates, className)
    IN IF found # NULL
       THEN deserialize(heap, found, childData, f)
       ELSE LET made == createChild(heap, object, className, f)
            IN IF made.object # NULL
               THEN deserialize(made.heap, made.object, childData, f)
               ELSE heap

\* The loop over the elements of a list entry; named and unnamed are the
\* existing children of the class that no element has consumed yet.
deserializeList(heap, object, className, childDataList, named, unnamed, f) ==
    IF childDataList = << >> THEN heap
    ELSE LET j == Head(childDataList)
             rest == Tail(childDataList)
         IN IF j.t = "Map"
            THEN LET childData == j.v
                     byName == IF "objectName" \in DOMAIN childData
                               THEN FirstNamed(heap, named,
                                               toString(childData["objectName"]))
                               ELSE NULL
                 IN IF byName # NULL
                    THEN deserializeList(deserialize(heap, byName, childData, f),
                             object, className, rest,
                             removeOne(named, byName), unnamed, f)
                    ELSE IF unnamed # << >>
                    THEN deserializeList(deserialize(heap, Head(unnamed), childData, f),
                             object, className, rest,
                             named, removeOne(unnamed, Head(unnamed)), f)
                    ELSE LET made == createChild(heap, object, className, f)
                         IN deserializeList(
                                IF made.object # NULL
                                THEN deserialize(made.heap, made.object, childData, f)
                                ELSE heap,
                                object, className, rest, named, unnamed, f)
            ELSE deserializeList(setProperty(heap, object, className, j),
                     object, className, rest, named, unnamed, f)

\* The loop over the entries of data, in QMap key order.
deserializeEntries(heap, object, data, keys, f) ==
    IF keys = << >> THEN heap
    ELSE LET key == Head(keys)
             value == data[key]
             kids == heap[object].children
             h1 == IF value.t = "Map"
                   THEN deserializeChild(heap, object, key, value.v, f)
                   ELSE IF value.t = "List"
                   THEN deserializeList(heap, object, key, value.v,
                            SelectSeq(kids, LAMBDA c :
                                /\ heap[c].className = key
                                /\ heap[c].objectName # ""),
                            SelectSeq(kids, LAMBDA c :
                                /\ heap[c].className = key
                                /\ heap[c].objectName = ""),
                            f)
                   ELSE setProperty(heap, object, key, value)
         IN deserializeEntries(h1, object, data, Tail(keys), f)

deserialize(heap, object, data, f) ==
    IF object = NULL THEN heap
    ELSE deserializeEntries(heap, object, data, KeysOf(data), f)

RECURSIVE deserializeObjects(_, _, _, _, _, _)
RECURSIVE deserializeObjectsGivingUp(_, _, _, _, _, _)

\* A loop that gives up at the first map for which there is no object and
\* none can be made, also at a null entry within the list.
deserializeObjectsGivingUp(heap, objects, data, f, objectCreatorKey, i) ==
    IF data = << >> THEN [heap |-> heap, objects |-> objects]
    ELSE LET j == Head(data)
             listed == IF i < Len(objects) THEN objects[i + 1] ELSE NULL
             byKey == IF listed = NULL /\ ~f.isNull /\ objectCreatorKey # ""
                      THEN create(heap, f, objectCreatorKey)
                      ELSE [heap |-> heap, object |-> listed]
             present == SelectSeq(objects, LAMBDA o : o # NULL)
             made == IF byKey.object = NULL /\ ~f.isNull /\ present # << >>
                     THEN create(heap, f, heap[Head(present)].className)
                     ELSE byKey
         IN IF j.t # "Map"
            THEN deserializeObjectsGivingUp(heap, objects, Tail(data), f,
                                            objectCreatorKey, i)
            ELSE IF made.object # NULL
            THEN deserializeObjectsGivingUp(
                     deserialize(made.heap, made.object, j.v, f),
                     IF i < Len(objects)
                     THEN [objects EXCEPT ![i + 1] = made.object]
                     ELSE Append(objects, made.object),
                     Tail(data), f, objectCreatorKey, i + 1)
            ELSE [heap |-> heap, objects |-> objects]

\* deserialize(objects, data, factory, objectCreatorKey): the loop over the
\* list data; i is the number of maps handled so far.  Returns the heap and
\* the list objects.
deserializeObjects(heap, objects, data, f, objectCreatorKey, i) ==
    IF data = << >> THEN [heap |-> heap, objects |-> objects]
    ELSE LET j == Head(data)
             listed == IF i < Len(objects) THEN objects[i + 1] ELSE NULL
             byKey == IF listed = NULL /\ ~f.isNull /\ objectCreatorKey # ""
                      THEN create(heap, f, objectCreatorKey)
                      ELSE [heap |-> heap, object |-> listed]
             present == SelectSeq(objects, LAMBDA o : o # NULL)
             made == IF byKey.object = NULL /\ ~f.isNull /\ present # << >>
                     THEN create(heap, f, heap[Head(present)].className)
                     ELSE byKey
         IN IF j.t # "Map"
            THEN deserializeObjects(heap, objects, Tail(data), f,
                                    objectCreatorKey, i)
            ELSE IF made.object # NULL
            THEN deserializeObjects(
                     deserialize(made.heap, made.object, j.v, f),
                     IF i < Len(objects)
                     THEN [objects EXCEPT ![i + 1] = made.object]
                     ELSE Append(objects, made.object),
                     Tail(data), f, objectCreatorKey, i + 1)
            ELSE IF i >= Len(objects)
            THEN [heap |-> heap, objects |-> objects]
            ELSE deserializeObjects(heap, objects, Tail(data), f,
                                    objectCreatorKey, i + 1)

(***************************************************************************)
(* deserialize with a count of the recursive calls it makes: the same      *)
(* branches, returning the heap and the number of calls of deserialize     *)
(* made below the call.                                                    *)
(***************************************************************************)
RECURSIVE deserializeRun(_, _, _, _)
RECURSIVE deserializeRunEntries(_, _, _, _, _, _)
RECURSIVE deserializeRunList(_, _, _, _, _, _, _, _)

\* A map branch that goes on through the candidates after the first child of
\* the class and deserializes the map into every one of them.
RECURSIVE deserializeRunEvery(_, _, _, _, _, _)
deserializeRunEvery(heap, candidates, className, childData, f, calls) ==
    IF candidates = << >> THEN [heap |-> heap, calls |-> calls]
    ELSE IF heap[Head(candidates)].className = className
    THEN LET r == deserializeRun(heap, Head(candidates), childData, f)
         IN deserializeRunEvery(r.heap, Tail(candidates), className, childData,
                                f, calls + r.calls + 1)
    ELSE deserializeRunEvery(heap, Tail(candidates), className, childData,
                             f, calls)

deserializeRunChildEvery(heap, object, className, childData, f) ==
    deserializeRunEvery(heap,
        IF "objectName" \in DOMAIN childData
        THEN findChildren(heap, object, toString(childData["objectName"]))
        ELSE heap[object].children,
        className, childData, f, 0)

\* An entry whose value is a map: one call of deserialize, when a child is
\* found or created.
deserializeRunChild(heap, object, className, childData, f) ==
    LET candidates == IF "objectName" \in DOMAIN childData
                      THEN findChildren(heap, object,
                                        toString(childData["objectName"]))
                      ELSE heap[object].children
        found == FirstOfClass(heap, candidates, className)
        made == createChild(heap, object, className, f)
        r == IF found # NULL
             THEN deserializeRun(heap, found, childData, f)
             ELSE deserializeRun(made.heap, made.object, childData, f)
    IN IF found # NULL \/ made.object # NULL
       THEN [heap |-> r.heap, calls |-> r.calls + 1]
       ELSE [heap |-> heap, calls |-> 0]

\* The loop over the elements of a list entry.
deserializeRunList(heap, object, className, childDataList, named, unnamed, f, calls) ==
    IF childDataList = << >> THEN [heap |-> heap, calls |-> calls]
    ELSE LET j == Head(childDataList)
             rest == Tail(childDataList)
         IN IF j.t = "Map"
            THEN LET childData == j.v
                     byName == IF "objectName" \in DOMAIN childData
                               THEN FirstNamed(heap, named,
                                               toString(childData["objectName"]))
                               ELSE NULL
                     made == createChild(heap, object, className, f)
                     child == IF byName # NULL THEN byName
                              ELSE IF unnamed # << >> THEN Head(unnamed)
                              ELSE made.object
                     r == deserializeRun(
                              IF byName = NULL /\ unnamed = << >>
                              THEN made.heap ELSE heap,
                              child, childData, f)
                 IN IF child = NULL
                    THEN deserializeRunList(heap, object, className, rest,
                                            named, unnamed, f, calls)
                    ELSE deserializeRunList(r.heap, object, className, rest,
                             removeOne(named, child), removeOne(unnamed, child),
                             f, calls + r.calls + 1)
            ELSE deserializeRunList(setProperty(heap, object, className, j),
                     object, className, rest, named, unnamed, f, calls)

\* The loop over the entries of data, in QMap key order.
deserializeRunEntries(heap, object, data, keys, f, calls) ==
    IF keys = << >> THEN [heap |-> heap, calls |-> calls]
    ELSE LET key == Head(keys)
             value == data[key]
             kids == heap[object].children
             r == IF value.t = "Map"
                  THEN deserializeRunChild(heap, object, key, value.v, f)
                  ELSE IF value.t = "List"
                  THEN deserializeRunList(heap, object, key, value.v,
                           SelectSeq(kids, LAMBDA c :
                               /\ heap[c].className = key
                               /\ heap[c].objectName # ""),
                           SelectSeq(kids, LAMBDA c :
                               /\ heap[c].className = key
                               /\ heap[c].objectName = ""),
                           f, 0)
                  ELSE [heap |-> setProperty(heap, object, key, value),
                        calls |-> 0]
         IN deserializeRunEntries(r.heap, object, data, Tail(keys), f,
                                  calls + r.calls)

deserializeRun(heap, object, data, f) ==
    IF object = NULL THEN [heap |-> heap, calls |-> 0]
    ELSE deserializeRunEntries(heap, object, data, KeysOf(data), f, 0)

(***************************************************************************)
(* ObjectSerializerQt::deserialize: children are looked up by the map key  *)
(* as objectName, and a created child is given the key as its objectName.  *)
(***************************************************************************)
RECURSIVE findChild(_, _, _)
RECURSIVE findChildBelow(_, _, _)
RECURSIVE ObjectSerializerQt_deserialize(_, _, _, _)
RECURSIVE ObjectSerializerQt_deserializeEntries(_, _, _, _, _)
RECURSIVE ObjectSerializerQt_deserializeList(_, _, _, _, _, _, _)

\* The first hit of findChild below the objects of a list, or NULL.
findChildBelow(heap, objects, name) ==
    IF objects = << >> THEN NULL
    ELSE LET hit == findChild(heap, Head(objects), name)
         IN IF hit # NULL THEN hit ELSE findChildBelow(heap, Tail(objects), name)

\* QObject::findChild<QObject*>(name): the first child of the object with
\* that objectName, else the first hit of findChild in a child, in order.
findChild(heap, object, name) ==
    LET direct == FirstNamed(heap, heap[object].children, name)
    IN IF direct # NULL THEN direct
       ELSE findChildBelow(heap, heap[object].children, name)

\* A createChild of ObjectSerializerQt without child->setObjectName(childName).
ObjectSerializerQt_createChildUnnamed(heap, object, name, f) ==
    LET made == create(heap, f, name)
    IN [heap |-> setParent(made.heap, made.object, object),
        object |-> made.object]

\* child = factory.create(childName); child->setParent(object);
\* child->setObjectName(childName);
ObjectSerializerQt_createChild(heap, object, name, f) ==
    LET made == create(heap, f, name)
        h1 == setParent(made.heap, made.object, object)
    IN [heap |-> [h1 EXCEPT ![made.object].objectName = name],
        object |-> made.object]

\* An entry whose value is a map.
ObjectSerializerQt_deserializeChild(heap, object, name, childData, f) ==
    LET child == findChild(heap, object, name)
    IN IF child # NULL
       THEN ObjectSerializerQt_deserialize(heap, child, childData, f)
       ELSE IF hasCreator(f, name)
       THEN LET made == ObjectSerializerQt_createChild(heap, object, name, f)
            IN ObjectSerializerQt_deserialize(made.heap, made.object, childData, f)
       ELSE heap

\* The loop over the elements of a list entry; existing is the result of
\* findChildren(childName) before the loop, count the number of its objects
\* already used.
ObjectSerializerQt_deserializeList(heap, object, name, childDataList, existing, count, f) ==
    IF childDataList = << >> THEN heap
    ELSE LET j == Head(childDataList)
             rest == Tail(childDataList)
         IN IF j.t = "Map"
            THEN IF count < Len(existing)
                 THEN ObjectSerializerQt_deserializeList(
                          ObjectSerializerQt_deserialize(heap, existing[count + 1],
                                                         j.v, f),
                          object, name, rest, existing, count + 1, f)
                 ELSE IF hasCreator(f, name)
                 THEN LET made == ObjectSerializerQt_createChild(heap, object,
                                                                 name, f)
                      IN ObjectSerializerQt_deserializeList(
                             ObjectSerializerQt_deserialize(made.heap, made.object,
                                                            j.v, f),
                             object, name, rest, existing, count, f)
                 ELSE ObjectSerializerQt_deserializeList(heap, object, name, rest,
                                                         existing, count, f)
            ELSE ObjectSerializerQt_deserializeList(
                     setProperty(heap, object, name, j),
                     object, name, rest, existing, count, f)

\* The loop over the entries of data, in QMap key order.
ObjectSerializerQt_deserializeEntries(heap, object, data, keys, f) ==
    IF keys = << >> THEN heap
    ELSE LET key == Head(keys)
             value == data[key]
             h1 == IF value.t = "Map"
                   THEN ObjectSerializerQt_deserializeChild(heap, object, key,
                                                            value.v, f)
                   ELSE IF value.t = "List"
                   THEN ObjectSerializerQt_deserializeList(heap, object, key,
                            value.v, findChildren(heap, object, key), 0, f)
                   ELSE setProperty(heap, object, key, value)
         IN ObjectSerializerQt_deserializeEntries(h1, object, data, Tail(keys), f)

ObjectSerializerQt_deserialize(heap, object, data, f) ==
    IF object = NULL THEN heap
    ELSE ObjectSerializerQt_deserializeEntries(heap, object, data, KeysOf(data), f)

(***************************************************************************)
(* The loop over a list entry once more, with the list of the children     *)
(* that the map elements were handed to (NULL for an element dropped).     *)
(***************************************************************************)
RECURSIVE deserializeListTargets(_, _, _, _, _, _, _, _)
RECURSIVE deserializeListTargetsKeepingPools(_, _, _, _, _, _, _, _)

\* The loop with pools that keep the children they handed out.
deserializeListTargetsKeepingPools(heap, object, className, childDataList, named, unnamed, f, targets) ==
    IF childDataList = << >> THEN [heap |-> heap, targets |-> targets]
    ELSE LET j == Head(childDataList)
             rest == Tail(childDataList)
         IN IF j.t = "Map"
            THEN LET childData == j.v
                     byName == IF "objectName" \in DOMAIN childData
                               THEN FirstNamed(heap, named,
                                               toString(childData["objectName"]))
                               ELSE NULL
                     made == createChild(heap, object, className, f)
                     child == IF byName # NULL THEN byName
                              ELSE IF unnamed # << >> THEN Head(unnamed)
                              ELSE made.object
                     h1 == IF byName = NULL /\ unnamed = << >>
                           THEN made.heap ELSE heap
                 IN IF child = NULL
                    THEN deserializeListTargetsKeepingPools(heap, object, className,
                             rest, named, unnamed, f, Append(targets, NULL))
                    ELSE deserializeListTargetsKeepingPools(
                             deserialize(h1, child, childData, f), object,
                             className, rest, named, unnamed, f,
                             Append(targets, child))
            ELSE deserializeListTargetsKeepingPools(
                     setProperty(heap, object, className, j),
                     object, className, rest, named, unnamed, f, targets)

deserializeListTargets(heap, object, className, childDataList, named, unnamed, f, targets) ==
    IF childDataList = << >> THEN [heap |-> heap, targets |-> targets]
    ELSE LET j == Head(childDataList)
             rest == Tail(childDataList)
         IN IF j.t = "Map"
            THEN LET childData == j.v
                     byName == IF "objectName" \in DOMAIN childData
                               THEN FirstNamed(heap, named,
                                               toString(childData["objectName"]))
                               ELSE NULL
                     made == createChild(heap, object, className, f)
                     child == IF byName # NULL THEN byName
                              ELSE IF unnamed # << >> THEN Head(unnamed)
                              ELSE made.object
                     h1 == IF byName = NULL /\ unnamed = << >>
                           THEN made.heap ELSE heap
                 IN IF child = NULL
                    THEN deserializeListTargets(heap, object, className, rest,
                             named, unnamed, f, Append(targets, NULL))
                    ELSE deserializeListTargets(
                             deserialize(h1, child, childData, f), object,
                             className, rest, removeOne(named, child),
                             removeOne(unnamed, child), f,
                             Append(targets, child))
            ELSE deserializeListTargets(setProperty(heap, object, className, j),
                     object, className, rest, named, unnamed, f, targets)

(***************************************************************************)
(* The host program around the library, as in the test programs: it builds *)
(* a tree under object 1, writes properties, registers creators, obtains   *)
(* a QVariantMap (from serialize, or from a document) and deserializes it  *)
(* into the tree or into a fresh object.                                   *)
(***************************************************************************)
VARIABLES heap,      \* the QObjects
          creators,  \* ObjectFactory::creators
          data,      \* the QVariantMap the host holds
          source,    \* where data comes from: "none", "serialize", "document"
          pc,        \* "build", "loaded" (data is set), "done" (deserialized)
          quota,     \* objects the host may still allocate in the tree
          writes,    \* number of host property writes so far
          snap,      \* the heap when data was obtained
          pre,       \* the heap before the deserialize call
          call,      \* the arguments of the last library call
          log,       \* the registerCreator calls so far, as <<key, creator>>
          objects,   \* the QList<QObject*> the host holds
          preObjects \* that list before the deserialize call

vars == <<heap, creators, data, source, pc, quota, writes, snap, pre, call, log,
          objects, preObjects>>

BuildClasses == {"Person", "Pet"}
HostDynamicNames == {"Pet"}

NoCall == [op |-> "none", object |-> NULL, childDepth |-> -1,
           includeReadOnlyProperties |-> TRUE, includeObjectName |-> TRUE,
           withFactory |-> FALSE, key |-> ""]

\* The state around a given heap before any library call.
Start(h, q) ==
    /\ heap = h
    /\ creators = EmptyMap
    /\ data = EmptyMap
    /\ source = "none"
    /\ pc = "build"
    /\ quota = q
    /\ writes = 0
    /\ snap = << >>
    /\ pre = << >>
    /\ call = NoCall
    /\ log = << >>
    /\ objects = << >>
    /\ preObjects = << >>

\* T *child = new T(name); child->setParent(parent);
NewChild(className, name, parent) ==
    /\ pc = "build"
    /\ quota > 0
    /\ heap' = setParent(Append(heap, NewQObject(className, name)),
                         Len(heap) + 1, parent)
    /\ quota' = quota - 1
    /\ UNCHANGED <<objects, preObjects, creators, data, source, pc, writes, snap, pre, call, log>>

\* The names the host writes on an object: its declared members other than
\* objectName, and dynamic properties.
HostWritable(obj) == (DOMAIN obj.props) \cup HostDynamicNames

\* john->heightInCm = 0;  spot->setProperty("vaccinated", true);
\* before data is obtained, or afterwards on the tree that was serialized.
HostSetProperty(object, name, value) ==
    /\ pc \in {"build", "loaded"}
    /\ pc = "loaded" => (source = "serialize" /\ Len(heap) = Len(snap))
    /\ writes < MaxWrites
    /\ name \in HostWritable(heap[object])
    /\ heap' = setProperty(heap, object, name, value)
    /\ writes' = writes + 1
    /\ UNCHANGED <<objects, preObjects, creators, data, source, pc, quota, snap, pre, call, log>>

\* factory.registerCreator(key, factory.defaultCreator<T>) with T's class name,
\* "Person" before "Pet"; after serialize the host registers its creators once
\* it has made the fresh object.
RegisterCreator(key) ==
    /\ pc = "loaded"
    /\ source = "serialize" => Len(heap) > Len(snap)
    /\ key \notin DOMAIN creators
    /\ key = "Pet" => "Person" \in DOMAIN creators
    /\ creators' = registerCreator(creators, key, key)
    /\ log' = Append(log, <<key, key>>)
    /\ UNCHANGED <<objects, preObjects, heap, data, source, pc, quota, writes, snap, pre, call>>

\* QVariantMap data = serialize(object, childDepth, includeReadOnlyProperties);
Serialize(object, childDepth, includeReadOnlyProperties) ==
    /\ pc = "build"
    /\ data' = serialize(heap, object, childDepth, includeReadOnlyProperties)
    /\ source' = "serialize"
    /\ snap' = heap
    /\ pc' = "loaded"
    /\ call' = [op |-> "serialize", object |-> object, childDepth |-> childDepth,
                includeReadOnlyProperties |-> includeReadOnlyProperties,
                includeObjectName |-> TRUE, withFactory |-> FALSE,
                key |-> ""]
    /\ UNCHANGED <<objects, preObjects, heap, creators, quota, writes, pre, log>>

\* The host holds a QVariantMap that it read from a document or put together.
LoadData(d) ==
    /\ pc = "build"
    /\ data' = d
    /\ source' = "document"
    /\ snap' = heap
    /\ pc' = "loaded"
    /\ UNCHANGED <<objects, preObjects, heap, creators, quota, writes, pre, call, log>>

\* Person bizarroJane;  a fresh object of the class of object 1.
NewRoot ==
    /\ pc = "loaded"
    /\ source = "serialize"
    /\ heap = snap
    /\ heap' = Append(heap, NewQObject(heap[1].className, ""))
    /\ UNCHANGED <<objects, preObjects, creators, data, source, pc, quota, writes, snap, pre, call, log>>

\* deserialize(object, data) or deserialize(object, data, &factory), into the
\* fresh object when there is one; the host passes its factory when it has
\* registered a creator.
Deserialize(object, withFactory) ==
    /\ pc = "loaded"
    /\ object = (IF Len(heap) > Len(snap) THEN Len(heap) ELSE 1)
    /\ withFactory = (creators # EmptyMap)
    /\ pre' = heap
    /\ heap' = deserialize(heap, object, data,
                           IF withFactory THEN FactoryPtr(creators) ELSE NullFactory)
    /\ pc' = "done"
    /\ call' = [call EXCEPT !.op = "deserialize", !.object = object,
                            !.withFactory = withFactory]
    /\ UNCHANGED <<objects, preObjects, creators, data, source, quota, writes, snap, log>>

HostWrite ==
    \E o \in 1..Len(heap), n \in HostDynamicNames \cup {"height", "species"},
       i \in 1..MaxInt : HostSetProperty(o, n, IntV(i))

HostRegister == \E k \in BuildClasses : RegisterCreator(k)

HostDeserialize == \E o \in 1..Len(heap), f \in BOOLEAN : Deserialize(o, f)

\* QtPropertySerializer::readJson(&jane, "jane.json", &factory) once more: the
\* host deserializes the same data into the same object with the same factory.
DeserializeAgain ==
    /\ pc = "done"
    /\ call.op = "deserialize"
    /\ pre' = heap
    /\ heap' = deserialize(heap, call.object, data,
                           IF call.withFactory THEN FactoryPtr(creators) ELSE NullFactory)
    /\ pc' = "again"
    /\ UNCHANGED <<objects, preObjects, creators, data, source, quota, writes, snap, call, log>>

(***************************************************************************)
(* Spec: serialize the tree, then deserialize the data into the tree       *)
(* (after the host changed properties) or into a fresh object.             *)
(***************************************************************************)
Names == {"", "a"}

Init == Start(<<NewQObject("Person", "a")>>, MaxObjects - 1)

Next ==
    \/ \E c \in BuildClasses, n \in Names, p \in 1..Len(heap) : NewChild(c, n, p)
    \/ HostWrite
    \/ Serialize(1, -1, TRUE)
    \/ NewRoot
    \/ HostRegister
    \/ HostDeserialize
    \/ DeserializeAgain

Spec == Init /\ [][Next]_vars

(***************************************************************************)
(* SpecEnc: serialize the tree with every depth argument.                  *)
(***************************************************************************)
DepthArgs == {-1, 0, 1}

NextEnc ==
    \/ \E c \in BuildClasses, n \in Names, p \in 1..Len(heap) : NewChild(c, n, p)
    \/ HostWrite
    \/ \E d \in DepthArgs, ro \in BOOLEAN : Serialize(1, d, ro)

SpecEnc == Init /\ [][NextEnc]_vars

(***************************************************************************)
(* SpecVariants: the three serializers of the repository on one tree that  *)
(* holds objects of the class Person of src/test/Person.h.                 *)
(***************************************************************************)
\* QVariantMap data = serialize(object, childDepth, includeReadOnlyProperties,
\*                              includeObjectName);   QtObjectPropertySerializer.h
SerializeObjectProperties(object, childDepth, includeReadOnlyProperties, includeObjectName) ==
    /\ pc = "build"
    /\ data' = QtObjectPropertySerializer_serialize(heap, object, childDepth,
                   includeReadOnlyProperties, includeObjectName)
    /\ source' = "QtObjectPropertySerializer"
    /\ snap' = heap
    /\ pc' = "loaded"
    /\ call' = [op |-> "serialize", object |-> object, childDepth |-> childDepth,
                includeReadOnlyProperties |-> includeReadOnlyProperties,
                includeObjectName |-> includeObjectName, withFactory |-> FALSE,
                key |-> ""]
    /\ UNCHANGED <<objects, preObjects, heap, creators, quota, writes, pre, log>>

\* QVariantMap data = ObjectSerializerQt::serialize(object,
\*                                                  includeReadOnlyProperties);
SerializeObjectSerializerQt(object, includeReadOnlyProperties) ==
    /\ pc = "build"
    /\ data' = ObjectSerializerQt_serialize(heap, object, includeReadOnlyProperties)
    /\ source' = "ObjectSerializerQt"
    /\ snap' = heap
    /\ pc' = "loaded"
    /\ call' = [op |-> "serialize", object |-> object, childDepth |-> -1,
                includeReadOnlyProperties |-> includeReadOnlyProperties,
                includeObjectName |-> FALSE, withFactory |-> FALSE,
                key |-> ""]
    /\ UNCHANGED <<objects, preObjects, heap, creators, quota, writes, pre, log>>

VariantClasses == {"Person.h", "Pet"}

InitVariants == Start(<<NewQObject("Person.h", "a")>>, MaxObjects - 1)

NextVariants ==
    \/ \E c \in VariantClasses, n \in Names, p \in 1..Len(heap) : NewChild(c, n, p)
    \/ HostWrite
    \/ \E d \in DepthArgs, ro \in BOOLEAN : Serialize(1, d, ro)
    \/ \E d \in DepthArgs, ro \in BOOLEAN, ion \in BOOLEAN :
          SerializeObjectProperties(1, d, ro, ion)
    \/ \E ro \in BOOLEAN : SerializeObjectSerializerQt(1, ro)

SpecVariants == InitVariants /\ [][NextVariants]_vars

(***************************************************************************)
(* SpecRec: the host builds a small tree, holds a QVariantMap read from a  *)
(* document with one child entry (a map, or a list of maps and values) and *)
(* possibly a property value, and deserializes it into object 1.           *)
(***************************************************************************)
RecNames == {"", "a", "b"}

DocKeys == {"Person", "Pet", "QObject"}

\* The maps of children in the documents: without objectName, with an
\* objectName, and with a child entry of their own.
ChildMaps ==
    << [vaccinated |-> IntV(1)],
       [objectName |-> StrV("a"), vaccinated |-> IntV(1)],
       [objectName |-> StrV("b"), vaccinated |-> IntV(1)],
       [Pet |-> MapV([objectName |-> StrV("a")]), height |-> IntV(1)] >>

Shapes == {"map", "list1", "list2", "mixed"}

\* The QVariantMap of a document {key: entry} or {key: entry, height: 1}.
Doc(key, shape, m1, m2, withProperty) ==
    LET entry == CASE shape = "map" -> MapV(m1)
                   [] shape = "list1" -> ListV(<<MapV(m1)>>)
                   [] shape = "list2" -> ListV(<<MapV(m1), MapV(m2)>>)
                   [] OTHER -> ListV(<<IntV(1), MapV(m1)>>)
        d == MapSet(EmptyMap, key, entry)
    IN IF withProperty THEN MapSet(d, "height", IntV(1)) ELSE d

HostLoad ==
    \E k \in DocKeys, shape \in Shapes, i \in 1..Len(ChildMaps),
       j \in 1..Len(ChildMaps), p \in BOOLEAN :
        /\ shape # "list2" => j = i
        /\ p => shape = "map"
        /\ LoadData(Doc(k, shape, ChildMaps[i], ChildMaps[j], p))

InitRec == Start(<<NewQObject("Person", "a")>>, MaxExisting - 1)

NextRec ==
    \/ \E c \in BuildClasses, n \in RecNames, p \in 1..Len(heap) : NewChild(c, n, p)
    \/ HostLoad
    \/ HostRegister
    \/ HostDeserialize

SpecRec == InitRec /\ [][NextRec]_vars

(***************************************************************************)
(* SpecFamily: the family tree of the test program (Jane with children     *)
(* John and Josephine, Josephine with her pet Spot), to which the host     *)
(* adds objects; the data is serialize(jane) or a document with one child  *)
(* entry that names a member of the family.                                *)
(***************************************************************************)
FamilyNames == {"Josephine", "Spot"}

FamilyTree ==
    LET jane == <<NewQObject("Person", "Jane")>>
        john == setParent(Append(jane, NewQObject("Person", "John")), 2, 1)
        josephine == setParent(Append(john, NewQObject("Person", "Josephine")), 3, 1)
        spot == setParent(Append(josephine, NewQObject("Pet", "Spot")), 4, 3)
    IN setProperty(spot, 4, "vaccinated", IntV(1))

HostLoadFamily ==
    \E k \in BuildClasses, shape \in {"map", "list1"}, n \in FamilyNames :
        LET m == [objectName |-> StrV(n), vaccinated |-> IntV(1)]
        IN LoadData(Doc(k, shape, m, m, FALSE))

InitFamily == Start(FamilyTree, MaxExtra)

NextFamily ==
    \/ \E c \in BuildClasses, n \in FamilyNames, p \in 1..Len(heap) : NewChild(c, n, p)
    \/ HostWrite
    \/ Serialize(1, -1, TRUE)
    \/ HostLoadFamily
    \/ NewRoot
    \/ HostRegister
    \/ HostDeserialize

SpecFamily == InitFamily /\ [][NextFamily]_vars

(***************************************************************************)
(* SpecDoc: a tree of objects of the class Person of Person.h (which has a *)
(* read-only property) and of Pets, and a document of one or two entries:  *)
(* property values (writable, read-only, of the wrong type, dynamic),      *)
(* children, and lists of both.                                            *)
(***************************************************************************)
DocClasses == {"Person.h", "Pet"}

DocNames == {"", "a"}

\* The entries (key, value) of the documents.
Entries ==
    << <<"heightInCm", IntV(2)>>,
       <<"heightInCm", StrV("a")>>,
       <<"heightInCm", StrV("2")>>,
       <<"heightInCm", ListV(<<IntV(2), StrV("a")>>)>>,
       <<"readOnlyName", StrV("b")>>,
       <<"vaccinated", IntV(1)>>,
       <<"vaccinated", ListV(<<IntV(1), IntV(2)>>)>>,
       <<"Pet", MapV([objectName |-> StrV("a"), species |-> StrV("b")])>>,
       <<"Pet", ListV(<<StrV("b"), MapV([species |-> StrV("b")]), IntV(2)>>)>>,
       <<"Person.h", MapV([objectName |-> StrV("a"), readOnlyName |-> StrV("b"),
                           heightInCm |-> IntV(2)])>>,
       <<"Person.h", MapV([heightInCm |-> StrV("a"),
                           Pet |-> MapV([species |-> StrV("b")])])>>,
       <<"QObject", MapV([vaccinated |-> IntV(1)])>> >>

\* QJsonDocument::toVariant().toMap(): the QVariantMap of a document, which
\* is a sequence of entries; the map keeps the keys, not their order.
RECURSIVE toMap(_)
toMap(document) ==
    IF document = << >> THEN EmptyMap
    ELSE LET last == document[Len(document)]
         IN MapSet(toMap(SubSeq(document, 1, Len(document) - 1)), last[1], last[2])

HostLoadDocument ==
    \E i, j \in 1..Len(Entries) : LoadData(toMap(<<Entries[i], Entries[j]>>))

InitDoc == Start(<<NewQObject("Person.h", "a")>>, MaxExisting - 1)

NextDoc ==
    \/ \E c \in DocClasses, n \in DocNames, p \in 1..Len(heap) : NewChild(c, n, p)
    \/ HostLoadDocument
    \/ RegisterCreator("Person.h")
    \/ HostDeserialize

SpecDoc == InitDoc /\ [][NextDoc]_vars

(***************************************************************************)
(* SpecFactory: the host registers creators under keys of its choice, more *)
(* than once under one key, calls create, and deserializes a document with *)
(* the factory.                                                            *)
(***************************************************************************)
FactoryKeys == {"Person.h", "Pet"}

\* factory.registerCreator(key, factory.defaultCreator<T>) for any key and T.
RegisterAny(key, creator) ==
    /\ pc = "build"
    /\ Len(log) < MaxCalls
    /\ creators' = registerCreator(creators, key, creator)
    /\ log' = Append(log, <<key, creator>>)
    /\ call' = [call EXCEPT !.op = "registerCreator", !.key = key]
    /\ UNCHANGED <<objects, preObjects, heap, data, source, pc, quota, writes, snap, pre>>

\* QObject *object = factory.create(key);
FactoryCreate(key) ==
    /\ pc = "build"
    /\ quota > 0
    /\ LET made == create(heap, FactoryPtr(creators), key)
       IN /\ heap' = made.heap
          /\ call' = [call EXCEPT !.op = "create", !.key = key,
                                  !.object = made.object]
    /\ pre' = heap
    /\ quota' = quota - 1
    /\ UNCHANGED <<objects, preObjects, creators, data, source, pc, writes, snap, log>>

InitFactory == Start(<<NewQObject("Person.h", "a")>>, MaxExtra)

NextFactory ==
    \/ \E k \in FactoryKeys, c \in FactoryKeys : RegisterAny(k, c)
    \/ \E k \in FactoryKeys : FactoryCreate(k)
    \/ HostLoadDocument
    \/ HostDeserialize
    \/ DeserializeAgain

SpecFactory == InitFactory /\ [][NextFactory]_vars

(***************************************************************************)
(* SpecNamed: ObjectSerializerQt next to QtPropertySerializer.  The host   *)
(* builds a tree, registers creators under class names and object names,   *)
(* and either serializes the tree with ObjectSerializerQt, edits a value   *)
(* in a child's map and deserializes the map into the same tree, or holds  *)
(* a document with one child entry and deserializes it with one of the     *)
(* two libraries.                                                          *)
(***************************************************************************)
NamedKeys == {"Pet", "a"}

\* The maps of children in the documents of SpecNamed.
NamedMaps ==
    << [species |-> StrV("b")],
       [objectName |-> StrV("b"), species |-> StrV("b")] >>

\* johnData["heightInCm"] = 210; janeData["John"] = johnData;
\* the host replaces a value in the map of a child, the i-th map under key.
EditData(key, i, name, value) ==
    /\ pc = "loaded"
    /\ source = "ObjectSerializerQt"
    /\ writes < MaxWrites
    /\ key \in DOMAIN data
    /\ \/ /\ data[key].t = "Map"
          /\ i = 1
          /\ name \in DOMAIN data[key].v
          /\ data[key].v[name] # value
          /\ data' = [data EXCEPT ![key] = MapV(MapSet(data[key].v, name, value))]
       \/ /\ data[key].t = "List"
          /\ i \in 1..Len(data[key].v)
          /\ data[key].v[i].t = "Map"
          /\ name \in DOMAIN data[key].v[i].v
          /\ data[key].v[i].v[name] # value
          /\ data' = [data EXCEPT ![key] = ListV([data[key].v EXCEPT ![i] =
                                      MapV(MapSet(data[key].v[i].v, name, value))])]
    /\ writes' = writes + 1
    /\ UNCHANGED <<objects, preObjects, heap, creators, source, pc, quota, snap, pre, call, log>>

HostEdit ==
    \E k \in DOMAIN data, i \in 1..MaxExisting, n \in {"species", "heightInCm"} :
        EditData(k, i, n, IF n = "species" THEN StrV("b") ELSE IntV(0))

\* ObjectSerializerQt::deserialize(object, data, factory); the factory is a
\* reference, an empty ObjectFactory() by default.
DeserializeObjectSerializerQt(object) ==
    /\ pc = "loaded"
    /\ pre' = heap
    /\ heap' = ObjectSerializerQt_deserialize(heap, object, data, FactoryPtr(creators))
    /\ pc' = "done"
    /\ call' = [call EXCEPT !.op = "ObjectSerializerQt::deserialize",
                            !.object = object,
                            !.withFactory = (creators # EmptyMap)]
    /\ UNCHANGED <<objects, preObjects, creators, data, source, quota, writes, snap, log>>

HostLoadNamed ==
    \E k \in NamedKeys, shape \in {"map", "list1"}, i \in 1..Len(NamedMaps) :
        LoadData(Doc(k, shape, NamedMaps[i], NamedMaps[i], FALSE))

InitNamed == Start(<<NewQObject("Person.h", "a")>>, MaxExisting - 1)

NextNamed ==
    \/ \E c \in VariantClasses, n \in Names, p \in 1..Len(heap) : NewChild(c, n, p)
    \/ \E k \in NamedKeys : RegisterAny(k, "Pet")
    \/ \E ro \in BOOLEAN : SerializeObjectSerializerQt(1, ro)
    \/ HostEdit
    \/ HostLoadNamed
    \/ HostDeserialize
    \/ DeserializeObjectSerializerQt(1)

SpecNamed == InitNamed /\ [][NextNamed]_vars

(***************************************************************************)
(* SpecFold: the host calls addMappedData on one map, with values of every *)
(* kind under two keys; log records the calls.                             *)
(***************************************************************************)
FoldKeys == {"a", "b"}

FoldValues ==
    { IntV(0), IntV(1), StrV("a"), MapV([a |-> IntV(1)]),
      ListV(<< >>), ListV(<<IntV(1)>>), ListV(<<IntV(0), StrV("a")>>), ObjV(1) }

\* addMappedData(data, key, value);
Fold(key, value) ==
    /\ pc = "build"
    /\ Len(log) < MaxFolds
    /\ call.op \in {"none", "addMappedData"}
    /\ data' = addMappedData(heap, data, key, value)
    /\ log' = Append(log, <<key, value>>)
    /\ call' = [call EXCEPT !.op = "addMappedData", !.key = key]
    /\ UNCHANGED <<objects, preObjects, heap, creators, source, pc, quota, writes, snap, pre>>

\* ObjectSerializerQt::addMappedData(data, name, value);
FoldObjectSerializerQt(name, value) ==
    /\ pc = "build"
    /\ Len(log) < MaxFolds
    /\ call.op \in {"none", "ObjectSerializerQt::addMappedData"}
    /\ data' = ObjectSerializerQt_addMappedData(data, name, value)
    /\ log' = Append(log, <<name, value>>)
    /\ call' = [call EXCEPT !.op = "ObjectSerializerQt::addMappedData", !.key = name]
    /\ UNCHANGED <<objects, preObjects, heap, creators, source, pc, quota, writes, snap, pre>>

InitFold == Start(<<NewQObject("Pet", "a")>>, 0)

NextFold ==
    \/ \E k \in FoldKeys, v \in FoldValues : Fold(k, v)
    \/ \E k \in FoldKeys, v \in FoldValues : FoldObjectSerializerQt(k, v)

SpecFold == InitFold /\ [][NextFold]_vars

(***************************************************************************)
(* SpecRefs: a Person of src/test/test_QtPropertySerializer.h, whose       *)
(* property pets holds pointers to objects.  The host adds children,       *)
(* assigns pets and serializes.  A call of serialize that never returns    *)
(* leaves pc at "diverged".                                                *)
(***************************************************************************)
\* Person person("a"): the constructor makes two Pets without parent and
\* leaves heightInCm uninitialized (height is any value).
PersonWithPetsHeap(height) ==
    << [NewQObject("PersonWithPets", "a") EXCEPT
           !.props = MapSet(MapSet(@, "height", IntV(height)),
                            "pets", ObjListV(<<2, 3>>))],
       NewQObject("Pet", "pet1"),
       NewQObject("Pet", "pet2") >>

\* person.pets = {...}: any objects, in any order, the person or its children
\* among them.
HostSetPets(pets) ==
    /\ pc = "build"
    /\ writes < MaxWrites
    /\ heap' = [heap EXCEPT ![1].props = MapSet(@, "pets", ObjListV(pets))]
    /\ writes' = writes + 1
    /\ UNCHANGED <<objects, preObjects, creators, data, source, pc, quota, snap, pre, call, log>>

\* QVariantMap data = serialize(object, childDepth, includeReadOnlyProperties);
\* on a heap with pointers between objects.
SerializeReferences(object, childDepth, includeReadOnlyProperties) ==
    IF serializeDiverges(heap, object, childDepth, {})
    THEN /\ pc = "build"
         /\ pc' = "diverged"
         /\ snap' = heap
         /\ call' = [op |-> "serialize", object |-> object,
                     childDepth |-> childDepth,
                     includeReadOnlyProperties |-> includeReadOnlyProperties,
                     includeObjectName |-> TRUE, withFactory |-> FALSE,
                     key |-> ""]
         /\ UNCHANGED <<objects, preObjects, heap, creators, data, source, quota, writes, pre, log>>
    ELSE Serialize(object, childDepth, includeReadOnlyProperties)

InitRefs == \E height \in 0..MaxInt : Start(PersonWithPetsHeap(height), MaxExtra)

NextRefs ==
    \/ \E n \in Names, p \in 1..Len(heap) : NewChild("Pet", n, p)
    \/ \E x, y \in 0..Len(heap) :
          HostSetPets(SelectSeq(<<x, y>>, LAMBDA o : o # NULL))
    \/ \E d \in DepthArgs, ro \in BOOLEAN : SerializeReferences(1, d, ro)

SpecRefs == InitRefs /\ [][NextRefs]_vars

(***************************************************************************)
(* SpecList: the host holds a QList<QObject*> of objects without parent,   *)
(* with null entries, and a QVariantList, and calls the list overload of   *)
(* deserialize.                                                            *)
(***************************************************************************)
\* objects.append(new T);
NewListed(className) ==
    /\ pc = "build"
    /\ Len(objects) < MaxExisting
    /\ heap' = Append(heap, NewQObject(className, ""))
    /\ objects' = Append(objects, Len(heap) + 1)
    /\ UNCHANGED <<creators, data, source, pc, quota, writes, snap, pre, call, log, preObjects>>

\* objects.append(NULL);
AppendNull ==
    /\ pc = "build"
    /\ Len(objects) < MaxExisting
    /\ objects' = Append(objects, NULL)
    /\ UNCHANGED <<heap, creators, data, source, pc, quota, writes, snap, pre, call, log, preObjects>>

\* factory.registerCreator("T", factory.defaultCreator<T>);
RegisterClass(key) ==
    /\ pc = "build"
    /\ key \notin DOMAIN creators
    /\ creators' = registerCreator(creators, key, key)
    /\ log' = Append(log, <<key, key>>)
    /\ UNCHANGED <<heap, data, source, pc, quota, writes, snap, pre, call, objects, preObjects>>

\* The elements of the QVariantList: two maps and a value that is not a map.
ListElements ==
    {MapV([height |-> IntV(1)]), MapV([objectName |-> StrV("b")]), IntV(1)}

\* The host holds a QVariantList of up to MaxExisting elements.
LoadList(l) ==
    /\ pc = "build"
    /\ data' = l
    /\ source' = "list"
    /\ snap' = heap
    /\ pc' = "loaded"
    /\ UNCHANGED <<heap, creators, quota, writes, pre, call, log, objects, preObjects>>

HostLoadList ==
    \E n \in 0..MaxExisting : \E l \in [1..n -> ListElements] : LoadList(l)

\* deserialize(objects, data), deserialize(objects, data, &factory) or
\* deserialize(objects, data, &factory, objectCreatorKey);
DeserializeObjects(withFactory, objectCreatorKey) ==
    /\ pc = "loaded"
    /\ source = "list"
    /\ withFactory = (creators # EmptyMap)
    /\ objectCreatorKey # "" => withFactory
    /\ LET r == deserializeObjects(heap, objects, data,
                     IF withFactory THEN FactoryPtr(creators) ELSE NullFactory,
                     objectCreatorKey, 0)
       IN /\ heap' = r.heap
          /\ objects' = r.objects
    /\ pre' = heap
    /\ preObjects' = objects
    /\ pc' = "done"
    /\ call' = [call EXCEPT !.op = "deserialize(objects)", !.object = NULL,
                            !.withFactory = withFactory,
                            !.key = objectCreatorKey]
    /\ UNCHANGED <<creators, data, source, quota, writes, snap, log>>

InitList == Start(<< >>, 0)

NextList ==
    \/ \E c \in BuildClasses : NewListed(c)
    \/ AppendNull
    \/ \E k \in BuildClasses : RegisterClass(k)
    \/ HostLoadList
    \/ \E f \in BOOLEAN, k \in {""} \cup BuildClasses : DeserializeObjects(f, k)

SpecList == InitList /\ [][NextList]_vars

(***************************************************************************)
(* Reading a heap as a tree.                                               *)
(***************************************************************************)

\* The children of an object whose class is className, in child order.
ChildrenOfClass(h, o, className) ==
    SelectSeq(h[o].children, LAMBDA c : h[c].className = className)

ChildClasses(h, o) == {h[c].className : c \in Range(h[o].children)}

\* The dynamic properties of an object as a map from name to value.
DynMap(obj) ==
    [n \in {obj.dyn[i][1] : i \in 1..Len(obj.dyn)} |-> obj.dyn[DynIndex(obj, n)][2]]

\* The names of the attributes an object has.
AttributeNames(obj) ==
    {"objectName"} \cup (DOMAIN obj.props) \cup (DOMAIN DynMap(obj))

RECURSIVE Descendants(_, _)
Descendants(h, o) ==
    Range(h[o].children) \cup
    UNION {Descendants(h, c) : c \in Range(h[o].children)}

\* The subtree of an object up to object identity: its class, its attributes
\* and, for every class, the subtrees of its children of that class in order.
RECURSIVE Tree(_, _)
Tree(h, o) ==
    [className |-> h[o].className,
     objectName |-> h[o].objectName,
     props |-> h[o].props,
     dyn |-> DynMap(h[o]),
     kids |-> [k \in ChildClasses(h, o) |->
                  LET sub == ChildrenOfClass(h, o, k)
                  IN [i \in 1..Len(sub) |-> Tree(h, sub[i])]]]

\* No two children of any object of the tree share a key (a class name).
UniqueChildKeys(h, o) ==
    \A x \in {o} \cup Descendants(h, o) :
        \A k \in ChildClasses(h, x) : Len(ChildrenOfClass(h, x, k)) = 1

\* Some children of some object of the tree share a key.
RepeatedChildKeys(h, o) == ~UniqueChildKeys(h, o)

\* The factory the host passed has a creator for every class of the tree.
FactoryCovers(h, o) ==
    /\ call.withFactory
    /\ \A x \in Descendants(h, o) : h[x].className \in DOMAIN creators

\* The last call deserialized serialize(object 1) into a fresh object.
DecodedIntoFresh ==
    /\ pc = "done"
    /\ source = "serialize"
    /\ call.childDepth = -1
    /\ call.object # 1

\* The last call deserialized serialize(object 1) back into object 1.
DecodedIntoTree ==
    /\ pc = "done"
    /\ source = "serialize"
    /\ call.childDepth = -1
    /\ call.object = 1

(***************************************************************************)
(* C1  Round trip: deserializing serialize(T) into a fresh childless       *)
(* object of T's class, with a factory that has a creator for every class  *)
(* of T, yields a tree with the attributes and the parent/child topology   *)
(* of T, when no two children of an object of T share a key.               *)
(***************************************************************************)
RoundTrip ==
    (DecodedIntoFresh /\ UniqueChildKeys(snap, 1) /\ FactoryCovers(snap, 1))
        => Tree(heap, call.object) = Tree(snap, 1)

(***************************************************************************)
(* C2  Restore: after serialize(T), changes of property values by the host *)
(* and deserialize of the data into T without a factory, every attribute   *)
(* that T had when it was serialized has its value of that time again, and *)
(* no object was created.                                                  *)
(***************************************************************************)
RestoresPreallocatedTree ==
    (DecodedIntoTree /\ ~call.withFactory)
        => /\ Len(heap) = Len(pre)
           /\ \A o \in 1..Len(snap) :
                 /\ heap[o].objectName = snap[o].objectName
                 /\ heap[o].props = snap[o].props
                 /\ \A n \in DOMAIN DynMap(snap[o]) :
                       /\ n \in DOMAIN DynMap(heap[o])
                       /\ DynMap(heap[o])[n] = DynMap(snap[o])[n]

(***************************************************************************)
(* C3  Round trip with repeated keys: deserializing serialize(T) into a    *)
(* fresh childless object, with a factory that has a creator for every     *)
(* class of T, creates under every object as many children per key as T    *)
(* has, in T's order, each with the attributes and the subtree of its      *)
(* counterpart, when several children of an object of T share a key.       *)
(***************************************************************************)
RoundTripRepeatedKeys ==
    (DecodedIntoFresh /\ RepeatedChildKeys(snap, 1) /\ FactoryCovers(snap, 1))
        => Tree(heap, call.object) = Tree(snap, 1)

(***************************************************************************)
(* The last call deserialized a document into call.object.                 *)
(***************************************************************************)
DecodedDocument ==
    /\ pc = "done"
    /\ source = "document"

\* The factory argument of the last deserialize call.
LastFactory == IF call.withFactory THEN FactoryPtr(creators) ELSE NullFactory

\* The object c and its descendants are as they were before the call.
SubtreeUnchanged(c) ==
    \A x \in {c} \cup Descendants(pre, c) : heap[x] = pre[x]

\* The value of a document entry is a property value (not a map or a list).
IsValue(value) == value.t \notin {"Map", "List"}

(***************************************************************************)
(* C4  Additive merge: after deserialize(node, data, factory), every child *)
(* of node that existed before the call and whose key (class name) is not  *)
(* a key of data has, with its whole subtree, the attributes and children  *)
(* it had before; and every attribute of node whose name is not a key of   *)
(* data has the value it had before.                                       *)
(***************************************************************************)
AdditiveMerge ==
    DecodedDocument =>
        /\ \A c \in Range(pre[call.object].children) :
              pre[c].className \notin DOMAIN data => SubtreeUnchanged(c)
        /\ \A n \in AttributeNames(pre[call.object]) \ DOMAIN data :
              /\ n \in AttributeNames(heap[call.object])
              /\ property(heap[call.object], n) = property(pre[call.object], n)

(***************************************************************************)
(* C5  Matching precedence: when node has two children of class k, one     *)
(* whose objectName is the objectName n that the entry under k declares    *)
(* and one whose objectName is not n, deserialize applies the entry (a map *)
(* or the one element of a list) to the child named n and leaves the other *)
(* child unchanged, whatever the order of the two children.                *)
(***************************************************************************)
\* The map of an entry that is a map or a list of one map.
IsOneMap(value) ==
    \/ value.t = "Map"
    \/ value.t = "List" /\ Len(value.v) = 1 /\ value.v[1].t = "Map"

EntryMap(value) == IF value.t = "Map" THEN value.v ELSE value.v[1].v

MatchingPrecedence ==
    DecodedDocument =>
        \A k \in DOMAIN data : \A c1, c2 \in Range(pre[call.object].children) :
            ( /\ DOMAIN data = {k}
              /\ IsOneMap(data[k])
              /\ "objectName" \in DOMAIN EntryMap(data[k])
              /\ pre[c1].className = k
              /\ pre[c2].className = k
              /\ c2 # c1
              /\ pre[c1].objectName = toString(EntryMap(data[k])["objectName"])
              /\ \A c \in Range(pre[call.object].children) \ {c1} :
                    pre[c].className = k => pre[c].objectName # pre[c1].objectName )
            => /\ heap = deserialize(pre, c1, EntryMap(data[k]), LastFactory)
               /\ SubtreeUnchanged(c2)

(***************************************************************************)
(* C6  Fallback creation: when data holds a map under key k, node has no   *)
(* child of class k and the factory has a creator for k, deserialize       *)
(* creates one object with that creator, attaches it as the one new child  *)
(* of node and applies the map to it; and every property value of data is  *)
(* written to node.  (Scenario A: data {height: 1, Pet: {objectName: a}}   *)
(* into a childless Person.)                                               *)
(***************************************************************************)
FallbackCreation ==
    DecodedDocument =>
        \A k \in DOMAIN data :
            ( /\ data[k].t = "Map"
              /\ ChildrenOfClass(pre, call.object, k) = << >>
              /\ call.withFactory
              /\ k \in DOMAIN creators )
            => LET c == Len(pre) + 1
                   m == data[k].v
               IN /\ Len(heap) >= c
                  /\ heap[c].className = creators[k]
                  /\ heap[c].parent = call.object
                  /\ heap[call.object].children =
                        Append(pre[call.object].children, c)
                  /\ \A n \in DOMAIN m :
                        IsValue(m[n]) => /\ n \in AttributeNames(heap[c])
                                         /\ property(heap[c], n) = m[n]
                  /\ \A n \in DOMAIN data :
                        IsValue(data[n])
                            => /\ n \in AttributeNames(heap[call.object])
                               /\ property(heap[call.object], n) = data[n]

(***************************************************************************)
(* C7  Unmatched entry without constructor: when node has no child of      *)
(* class k, and the call has no factory or the factory has no creator for  *)
(* k, a map under k (the entry itself or an element of the list entry) is  *)
(* dropped: no object is created and the tree is the one that deserialize  *)
(* yields for data without that map.  Stated for the keys k of classes     *)
(* that only a creator can construct.                                      *)
(***************************************************************************)
\* data without the entry under key.
WithoutEntry(d, key) == [x \in (DOMAIN d) \ {key} |-> d[x]]

\* data without the i-th element of the list entry under key.
WithoutElement(d, key, i) ==
    LET l == d[key].v
    IN MapSet(d, key, ListV(SubSeq(l, 1, i - 1) \o SubSeq(l, i + 1, Len(l))))

UnmatchedEntryDropped ==
    DecodedDocument =>
        \A k \in (DOMAIN data) \ {"QObject"} :
            ( /\ ~IsValue(data[k])
              /\ ChildrenOfClass(pre, call.object, k) = << >>
              /\ ~call.withFactory \/ k \notin DOMAIN creators )
            => /\ Len(heap) = Len(pre)
               /\ IF data[k].t = "Map"
                  THEN heap = deserialize(pre, call.object,
                                          WithoutEntry(data, k), LastFactory)
                  ELSE \A i \in 1..Len(data[k].v) :
                          data[k].v[i].t = "Map"
                              => heap = deserialize(pre, call.object,
                                            WithoutElement(data, k, i), LastFactory)

(***************************************************************************)
(* C8  Excess children untouched: when node has more children of class k   *)
(* than the list entry under k has maps, only the children that the maps   *)
(* select are modified, and no child is removed or moved.  Scenario B:     *)
(* with children Pet 'a' and Pet 'b' and data {Pet: [{objectName: a,       *)
(* vaccinated: 1}]}, afterwards 'a' has vaccinated = 1, 'b' has no         *)
(* attribute vaccinated and is unchanged, and no object was created.       *)
(***************************************************************************)
NumMaps(l) == Len(SelectSeq(l, LAMBDA e : e.t = "Map"))

\* The existing children that the maps of a list select, left to right:
\* the first child of the named pool with the declared name, else the
\* first child of the unnamed pool; a selected child leaves its pool.
RECURSIVE SelectedBy(_, _, _)
SelectedBy(l, named, unnamed) ==
    IF l = << >> THEN {}
    ELSE LET j == Head(l)
             hits == IF j.t = "Map" /\ "objectName" \in DOMAIN j.v
                     THEN SelectSeq(named, LAMBDA c :
                              pre[c].objectName = toString(j.v["objectName"]))
                     ELSE << >>
         IN IF j.t # "Map" THEN SelectedBy(Tail(l), named, unnamed)
            ELSE IF hits # << >>
            THEN {Head(hits)} \cup
                 SelectedBy(Tail(l), SelectSeq(named, LAMBDA c : c # Head(hits)),
                            unnamed)
            ELSE IF unnamed # << >>
            THEN {Head(unnamed)} \cup SelectedBy(Tail(l), named, Tail(unnamed))
            ELSE SelectedBy(Tail(l), named, unnamed)

\* The document of Scenario B.
ScenarioBData == Doc("Pet", "list1", ChildMaps[2], ChildMaps[2], FALSE)

\* Scenario B before the call: the children of node are cA and cB, two Pets
\* named a and b.
ScenarioB(cA, cB) ==
    /\ DecodedDocument
    /\ data = ScenarioBData
    /\ Range(pre[call.object].children) = {cA, cB}
    /\ pre[cA].className = "Pet" /\ pre[cA].objectName = "a"
    /\ pre[cB].className = "Pet" /\ pre[cB].objectName = "b"

ExcessChildrenUntouched ==
    /\ DecodedDocument =>
         \A k \in DOMAIN data :
            ( /\ DOMAIN data = {k}
              /\ data[k].t = "List"
              /\ Len(ChildrenOfClass(pre, call.object, k)) > NumMaps(data[k].v) )
            => LET kids == pre[call.object].children
                   sel == SelectedBy(data[k].v,
                              SelectSeq(kids, LAMBDA c : /\ pre[c].className = k
                                                         /\ pre[c].objectName # ""),
                              SelectSeq(kids, LAMBDA c : /\ pre[c].className = k
                                                         /\ pre[c].objectName = ""))
                   changed == {c \in Range(kids) : ~SubtreeUnchanged(c)}
               IN /\ changed \subseteq sel
                  /\ Cardinality(changed) <= NumMaps(data[k].v)
                  /\ SubSeq(heap[call.object].children, 1, Len(kids)) = kids
    /\ \A cA, cB \in 1..Len(pre) :
          ScenarioB(cA, cB)
              => /\ "vaccinated" \in AttributeNames(heap[cA])
                 /\ property(heap[cA], "vaccinated") = IntV(1)
                 /\ "vaccinated" \notin AttributeNames(heap[cB])
                 /\ heap[cB] = pre[cB]
                 /\ Len(heap) = Len(pre)

\* Scenario B has happened, with the child named a after the child named b.
ScenarioBWitness ==
    \E cA, cB \in 1..Len(pre) :
        /\ ScenarioB(cA, cB)
        /\ pre[call.object].children = <<cB, cA>>
        /\ heap[cA] # pre[cA]

(***************************************************************************)
(* C9  Both shapes of an entry.                                            *)
(***************************************************************************)
\* The map m of an entry as the list [m], and the list [m] as the map m.
OtherShape(value) ==
    IF value.t = "Map" THEN ListV(<<value>>) ELSE value.v[1]

\* The last call deserialized {k: m} or {k: [m]}.
DecodedOneMap(k) ==
    /\ DecodedDocument
    /\ DOMAIN data = {k}
    /\ IsOneMap(data[k])

\* m declares no objectName and no child of class k of node has one.
NoNames(k) ==
    /\ "objectName" \notin DOMAIN EntryMap(data[k])
    /\ \A c \in Range(ChildrenOfClass(pre, call.object, k)) : pre[c].objectName = ""

\* C9 as stated: for every tree, key k, map m and factory,
\* deserialize(node, {k: [m]}) leaves the tree in the state in which
\* deserialize(node, {k: m}) leaves it.
BothShapesEquivalent ==
    \A k \in DOMAIN data :
        DecodedOneMap(k)
            => heap = deserialize(pre, call.object,
                                  MapSet(data, k, OtherShape(data[k])), LastFactory)

\* C9 as amended: deserialize(node, {k: [m]}) and deserialize(node, {k: m})
\* leave the tree in the same state when m declares no objectName and no
\* child of class k of node has an objectName.
BothShapesEquivalentUnnamed ==
    \A k \in DOMAIN data :
        (DecodedOneMap(k) /\ NoNames(k))
            => heap = deserialize(pre, call.object,
                                  MapSet(data, k, OtherShape(data[k])), LastFactory)

\* An entry without objectName was applied to one of two unnamed children
\* of its class.
BothShapesWitness ==
    \E k \in DOMAIN data :
        /\ DecodedOneMap(k)
        /\ NoNames(k)
        /\ Len(ChildrenOfClass(pre, call.object, k)) = 2
        /\ heap # pre

(***************************************************************************)
(* C11  Deserialize never deletes, reparents or reorders: after the call   *)
(* every object that existed before it still exists with the class and the *)
(* parent it had, and the children it had are, in their order, a prefix of *)
(* its children after the call.                                            *)
(***************************************************************************)
NeverDeletesReparentsReorders ==
    pc = "done" =>
        /\ Len(heap) >= Len(pre)
        /\ \A o \in 1..Len(pre) :
              /\ heap[o].className = pre[o].className
              /\ heap[o].parent = pre[o].parent
              /\ Len(heap[o].children) >= Len(pre[o].children)
              /\ SubSeq(heap[o].children, 1, Len(pre[o].children)) = pre[o].children

\* A call has created a child under an object that had two children.
NeverDeletesWitness ==
    /\ DecodedDocument
    /\ Len(pre[call.object].children) = 2
    /\ Len(heap[call.object].children) > 2

(***************************************************************************)
(* C12  Best-effort continuation: an entry that deserialize drops (a value *)
(* for a declared property that is read-only or of another type, or a      *)
(* child map with no match and no creator) does not stop the call: the     *)
(* tree afterwards is the one that deserialize yields for the data without *)
(* that entry, at the top level, inside a list and inside a child map; and *)
(* the property a dropped value names keeps its value.                     *)
(***************************************************************************)
\* The heap when the loop of the last call reached the entry under key k.
Before(k) ==
    LET ks == KeysOf(data)
        i == CHOOSE x \in 1..Len(ks) : ks[x] = k
    IN deserializeEntries(pre, call.object, data, SubSeq(ks, 1, i - 1), LastFactory)

\* A value for a declared property of the class that setProperty refuses.
DroppedValue(className, k, value) ==
    /\ IsValue(value)
    /\ IndexOfProperty(className, k) # 0
    /\ LET mp == MetaProperties(className)[IndexOfProperty(className, k)]
       IN ~mp.writable \/ ~convert(value, mp.type).ok

\* No object can be created for key k in the last call.
NoCreatorFor(k) ==
    /\ k # "QObject"
    /\ ~call.withFactory \/ k \notin DOMAIN creators

\* The search of the map branch finds no object for the map m under key k.
DroppedChild(h, o, k, m) ==
    /\ NoCreatorFor(k)
    /\ FirstOfClass(h, IF "objectName" \in DOMAIN m
                       THEN findChildren(h, o, toString(m["objectName"]))
                       ELSE h[o].children, k) = NULL

\* An element of the list under key k that the list branch drops.
DroppedElement(h, o, k, e) ==
    IF e.t = "Map"
    THEN NoCreatorFor(k) /\ ChildrenOfClass(h, o, k) = << >>
    ELSE DroppedValue(h[o].className, k, e)

BestEffortContinuation ==
    DecodedDocument =>
        \A k \in DOMAIN data :
            LET o == call.object
                v == data[k]
            IN /\ ( \/ DroppedValue(pre[o].className, k, v)
                    \/ v.t = "Map" /\ DroppedChild(Before(k), o, k, v.v) )
                  => heap = deserialize(pre, o, WithoutEntry(data, k), LastFactory)
               /\ DroppedValue(pre[o].className, k, v)
                  => property(heap[o], k) = property(Before(k)[o], k)
               /\ v.t = "List"
                  => \A i \in 1..Len(v.v) :
                        DroppedElement(Before(k), o, k, v.v[i])
                            => heap = deserialize(pre, o, WithoutElement(data, k, i),
                                                  LastFactory)
               /\ v.t = "Map"
                  => \A n \in DOMAIN v.v :
                        ( \/ DroppedValue(k, n, v.v[n])
                          \/ /\ v.v[n].t = "Map"
                             /\ NoCreatorFor(n)
                             /\ \A x \in 1..Len(pre) : pre[x].className # n )
                        => heap = deserialize(pre, o,
                                      MapSet(data, k, MapV(WithoutEntry(v.v, n))),
                                      LastFactory)

\* A value for the read-only property was dropped and the other entry of
\* the document, a child map, was applied.
BestEffortWitness ==
    /\ DecodedDocument
    /\ DOMAIN data = {"readOnlyName", "Person.h"}
    /\ heap # pre

(***************************************************************************)
(* C13  Order of processing.                                               *)
(***************************************************************************)
\* The children that the last call attached to its object, in child order.
Attached ==
    SubSeq(heap[call.object].children, Len(pre[call.object].children) + 1,
           Len(heap[call.object].children))

\* The orders in which a document can list the entries of a map.
DocumentOrders(d) ==
    {ord \in [1..Cardinality(DOMAIN d) -> DOMAIN d] :
        \A i, j \in DOMAIN ord : i # j => ord[i] # ord[j]}

\* The attached children follow the order ord of their keys (a created
\* child has the class that its key names).
AttachedInOrder(ord) ==
    \A i, j \in 1..Len(Attached) :
        i < j => \E x, y \in 1..Len(ord) :
                    /\ x <= y
                    /\ ord[x] = heap[Attached[i]].className
                    /\ ord[y] = heap[Attached[j]].className

\* C13 as stated: whatever the order in which the document lists the
\* entries of data, the children created for different keys are attached to
\* the object in that order.
DocumentOrderProcessing ==
    DecodedDocument => \A ord \in DocumentOrders(data) : AttachedInOrder(ord)

\* C13 as amended: deserialize applies the entries in the ascending order of
\* their keys (the order of the QVariantMap, which does not keep the order
\* of the document), so the children created for different keys are
\* attached to the object in key order.
KeyOrderProcessing ==
    DecodedDocument => AttachedInOrder(KeyOrder)

\* The last call created children for two keys.
KeyOrderWitness ==
    /\ DecodedDocument
    /\ Len(Attached) = 2
    /\ heap[Attached[1]].className # heap[Attached[2]].className

(***************************************************************************)
(* C10  Folding of children.                                               *)
(***************************************************************************)
\* The last call was serialize(object 1, childDepth) with children encoded.
EncodedWithChildren ==
    /\ pc = "loaded"
    /\ source = "serialize"
    /\ call.childDepth # 0

\* m is a map of the object c: it holds c's objectName and declared members.
IsMapOf(h, c, value) ==
    /\ value.t = "Map"
    /\ "objectName" \in DOMAIN value.v
    /\ value.v["objectName"] = StrV(h[c].objectName)
    /\ \A p \in DOMAIN h[c].props :
          p \in DOMAIN value.v /\ value.v[p] = h[c].props[p]

\* The depth argument serialize passes on to the children.
NextDepth(childDepth) == IF childDepth > 0 THEN childDepth - 1 ELSE childDepth

\* In the map m of object o, encoded with the given depth argument, and in
\* the maps of its descendants, the children under every key X (other than
\* the exempt keys of the object) are folded: one child as its map, two or
\* more as the list of their maps in child order.
RECURSIVE FoldedIn(_, _, _, _, _)
FoldedIn(h, o, m, childDepth, exemptAttributes) ==
    \/ childDepth = 0
    \/ \A X \in ChildClasses(h, o) \
                  (IF exemptAttributes THEN AttributeNames(h[o]) ELSE {}) :
          LET sub == ChildrenOfClass(h, o, X)
          IN /\ X \in DOMAIN m
             /\ IF Len(sub) = 1
                THEN /\ IsMapOf(h, sub[1], m[X])
                     /\ FoldedIn(h, sub[1], m[X].v, NextDepth(childDepth),
                                 exemptAttributes)
                ELSE /\ m[X].t = "List"
                     /\ Len(m[X].v) = Len(sub)
                     /\ \A i \in 1..Len(sub) :
                           /\ IsMapOf(h, sub[i], m[X].v[i])
                           /\ FoldedIn(h, sub[i], m[X].v[i].v,
                                       NextDepth(childDepth), exemptAttributes)

\* C10 as stated: serialize stores one child under key X as X -> map of the
\* child (never a list), and n >= 2 children under X as X -> list of exactly
\* n maps in child order, at every object it encodes with its children.
FoldingOfChildren ==
    EncodedWithChildren => FoldedIn(snap, 1, data, call.childDepth, FALSE)

\* C10 as amended: the same, for every key X that is not also the name of an
\* attribute of the encoded object.
FoldingOfChildrenNoAttribute ==
    EncodedWithChildren => FoldedIn(snap, 1, data, call.childDepth, TRUE)

\* Object 1 is encoded with one child under one key and several under
\* another, none of them the name of an attribute.
FoldingWitness ==
    /\ EncodedWithChildren
    /\ AttributeNames(snap[1]) \cap ChildClasses(snap, 1) = {}
    /\ Len(ChildrenOfClass(snap, 1, "Pet")) = 1
    /\ Len(ChildrenOfClass(snap, 1, "Person")) = 2

(***************************************************************************)
(* C14  Encoder child key.                                                 *)
(***************************************************************************)
\* The last call was a serialize of object 1 by one of the three serializers.
Encoded == pc = "loaded" /\ call.op = "serialize"

\* The maps stored under key X of the map m, in order.
MapsUnder(m, X) ==
    IF X \notin DOMAIN m THEN << >>
    ELSE IF m[X].t = "Map" THEN <<m[X]>>
    ELSE IF m[X].t = "List" THEN SelectSeq(m[X].v, LAMBDA e : e.t = "Map")
    ELSE << >>

\* value is a map that holds the declared members of the object c.
HoldsMembers(h, c, value) ==
    /\ value.t = "Map"
    /\ \A p \in DOMAIN h[c].props :
          p \in DOMAIN value.v /\ value.v[p] = h[c].props[p]

\* The key the claim gives a child, or its class name.
KeyOfChild(obj, byName) ==
    IF byName /\ obj.objectName # "" THEN obj.objectName ELSE obj.className

\* In the map m of object o, encoded with the given depth argument, and in
\* the maps of its descendants, the maps under the key of a child are the maps
\* of the children with that key, in child order.
RECURSIVE KeyedIn(_, _, _, _, _)
KeyedIn(h, o, m, childDepth, byName) ==
    \/ childDepth = 0
    \/ \A X \in {KeyOfChild(h[c], byName) : c \in Range(h[o].children)} :
          LET sub == SelectSeq(h[o].children,
                               LAMBDA c : KeyOfChild(h[c], byName) = X)
              maps == MapsUnder(m, X)
          IN /\ Len(maps) = Len(sub)
             /\ \A i \in 1..Len(sub) :
                   /\ HoldsMembers(h, sub[i], maps[i])
                   /\ KeyedIn(h, sub[i], maps[i].v, NextDepth(childDepth), byName)

\* C14 as stated: every serializer folds the map of a child c under c's
\* objectName when it is not empty and under c's class name otherwise.
ChildKeyNameElseClass ==
    Encoded => KeyedIn(snap, 1, data, call.childDepth, TRUE)

\* C14 as amended: serialize of QtPropertySerializer.cpp and of
\* QtObjectPropertySerializer.h folds the map of a child under the child's
\* class name whatever its objectName; ObjectSerializerQt::serialize folds it
\* under the objectName when it is not empty and under the class name otherwise.
ChildKeyByLibrary ==
    Encoded => KeyedIn(snap, 1, data, call.childDepth,
                       source = "ObjectSerializerQt")

\* serialize of QtPropertySerializer.cpp has encoded a named child and a named
\* grandchild of object 1.
ChildKeyWitness ==
    /\ Encoded
    /\ source = "serialize"
    /\ call.childDepth = -1
    /\ \E c \in Range(snap[1].children) :
          /\ snap[c].objectName = "a"
          /\ \E g \in Range(snap[c].children) : snap[g].objectName = "a"

(***************************************************************************)
(* C15  Encoder depth budget.                                              *)
(***************************************************************************)
\* The keys of a map under which a map is stored, alone or in a list.
KeysWithMaps(m) == {X \in DOMAIN m : MapsUnder(m, X) # << >>}

\* m is the map of object o, which lies at distance j from the encoded
\* object: the objects at distance j + 1 have their maps in m, under their
\* class names, exactly when the depth argument d is -1 or j + 1 <= d, and so
\* on below them.
RECURSIVE EncodedToDepth(_, _, _, _, _)
EncodedToDepth(h, o, m, j, d) ==
    IF d = -1 \/ j + 1 <= d
    THEN /\ KeysWithMaps(m) = ChildClasses(h, o)
         /\ \A X \in ChildClasses(h, o) :
               LET sub == ChildrenOfClass(h, o, X)
                   maps == MapsUnder(m, X)
               IN /\ Len(maps) = Len(sub)
                  /\ \A i \in 1..Len(sub) :
                        EncodedToDepth(h, sub[i], maps[i].v, j + 1, d)
    ELSE KeysWithMaps(m) = {}

\* The last call was a serialize that takes a depth argument.
EncodedWithDepth == Encoded /\ source # "ObjectSerializerQt"

\* C15: serialize(object, d) encodes every descendant of object when d is -1,
\* and for d >= 0 the descendants at distance j <= d and no others; d = 0
\* gives the properties of object and no child map.
DepthBudget ==
    EncodedWithDepth => EncodedToDepth(snap, 1, data, 0, call.childDepth)

\* serialize(object, 1) was called on an object with a grandchild.
DepthBudgetWitness ==
    /\ EncodedWithDepth
    /\ call.childDepth = 1
    /\ \E c \in Range(snap[1].children) : snap[c].children # << >>
    /\ KeysWithMaps(data) # {}

(***************************************************************************)
(* C16  Read-only filter at every depth.                                   *)
(***************************************************************************)
\* The map m holds the value v under the key n, alone or in a list.
HasValue(m, n, v) ==
    /\ n \in DOMAIN m
    /\ \/ m[n] = v
       \/ m[n].t = "List" /\ \E i \in 1..Len(m[n].v) : m[n].v[i] = v

\* The call leaves objectName out of some map for a reason of its own.
ObjectNameFiltered ==
    \/ source = "ObjectSerializerQt"
    \/ source = "QtObjectPropertySerializer" /\ ~call.includeObjectName

\* The map m of an object obeys the filter: without includeReadOnlyProperties
\* it has no key of a declared property that is not writable and it holds
\* every readable and writable property and every dynamic property; with it,
\* it holds every readable property.
AttributesFiltered(obj, m, includeReadOnlyProperties) ==
    LET mps == MetaProperties(obj.className)
    IN /\ \A i \in 1..Len(mps) :
             \/ mps[i].name = "objectName" /\ ObjectNameFiltered
             \/ IF mps[i].readable
                   /\ (includeReadOnlyProperties \/ mps[i].writable)
                THEN HasValue(m, mps[i].name, property(obj, mps[i].name))
                ELSE mps[i].writable \/ mps[i].name \notin DOMAIN m
       /\ \A n \in DOMAIN DynMap(obj) : HasValue(m, n, DynMap(obj)[n])

\* The filter holds in the map m of object o and in the maps of the
\* descendants encoded with it.
RECURSIVE FilteredIn(_, _, _, _, _, _)
FilteredIn(h, o, m, childDepth, byName, includeReadOnlyProperties) ==
    /\ AttributesFiltered(h[o], m, includeReadOnlyProperties)
    /\ \/ childDepth = 0
       \/ \A X \in {KeyOfChild(h[c], byName) : c \in Range(h[o].children)} :
             LET sub == SelectSeq(h[o].children,
                                  LAMBDA c : KeyOfChild(h[c], byName) = X)
                 maps == MapsUnder(m, X)
             IN \A i \in 1..Len(sub) :
                   /\ i <= Len(maps)
                   /\ FilteredIn(h, sub[i], maps[i].v, NextDepth(childDepth),
                                 byName, includeReadOnlyProperties)

\* C16: every serializer applies the read-only filter to the map of every
\* object it encodes, and encodes every dynamic property.
ReadOnlyFilter ==
    Encoded => FilteredIn(snap, 1, data, call.childDepth,
                          source = "ObjectSerializerQt",
                          call.includeReadOnlyProperties)

\* C16 for the serializers that have a loop over the dynamic properties.
ReadOnlyFilterDynamicLoop ==
    EncodedWithDepth => ReadOnlyFilter

(***************************************************************************)
(* C17  Display-name filter at every depth.                                *)
(***************************************************************************)
\* The value is a map with the given key, or holds such a map at some level.
RECURSIVE HasKeyAnywhere(_, _)
HasKeyAnywhere(value, key) ==
    IF value.t = "Map"
    THEN \/ key \in DOMAIN value.v
         \/ \E k \in DOMAIN value.v : HasKeyAnywhere(value.v[k], key)
    ELSE IF value.t = "List"
    THEN \E i \in 1..Len(value.v) : HasKeyAnywhere(value.v[i], key)
    ELSE FALSE

\* C17: when serialize is asked to leave objectName out (includeObjectName
\* false, or ObjectSerializerQt, which reserves it), neither the map of the
\* encoded object nor the map of any descendant has the key objectName.
DisplayNameFilter ==
    (Encoded /\ ObjectNameFiltered) => ~HasKeyAnywhere(MapV(data), "objectName")

\* C17 for the map of the encoded object alone, and for ObjectSerializerQt at
\* every level.
DisplayNameFilterRoot ==
    (Encoded /\ ObjectNameFiltered) =>
        /\ "objectName" \notin DOMAIN data
        /\ source = "ObjectSerializerQt" => DisplayNameFilter

(***************************************************************************)
(* C18  Scalar writes.                                                     *)
(***************************************************************************)
\* The values of an entry that deserialize hands to setProperty: the value
\* itself, or the elements of a list that are not maps, in list order.
ScalarsOf(value) ==
    IF value.t = "Map" THEN << >>
    ELSE IF value.t = "List" THEN SelectSeq(value.v, LAMBDA e : e.t # "Map")
    ELSE <<value>>

\* Key k is not a declared property of the object, or is a writable one.
WritableOrUndeclared(obj, k) ==
    LET idx == IndexOfProperty(obj.className, k)
    IN idx = 0 \/ MetaProperties(obj.className)[idx].writable

\* C18 as stated: after deserialize(object, data), for every key k of data
\* with a scalar, alone or in a list, whose property is writable or
\* undeclared, property k of object equals the (last) scalar; an undeclared k
\* is a dynamic property.
ScalarWrites ==
    pc = "done" =>
        \A k \in DOMAIN data :
            LET sc == ScalarsOf(data[k])
                obj == heap[call.object]
            IN (sc # << >> /\ WritableOrUndeclared(obj, k)) =>
                  /\ property(obj, k) = sc[Len(sc)]
                  /\ IndexOfProperty(obj.className, k) = 0 =>
                        k \in DOMAIN DynMap(obj)

\* What a scalar is as a value of a declared type: itself, an int as its
\* decimal string, a decimal string as its int; nothing for any other string.
AsType(e, type) ==
    IF e.t = type THEN <<e>>
    ELSE IF e.t = "Int" /\ type = "String" THEN <<StrV(toString(e))>>
    ELSE IF e.t = "String" /\ type = "Int"
    THEN LET ns == {n \in 0..(Len(Digits) - 1) : toString(IntV(n)) = e.v}
         IN IF ns = {} THEN << >> ELSE <<IntV(CHOOSE n \in ns : TRUE)>>
    ELSE << >>

\* C18 as amended: an undeclared k is a dynamic property that equals the last
\* scalar; a declared writable k equals the last scalar that converts to its
\* declared type, converted to that type, and keeps its value when no scalar
\* of the entry converts.
ScalarWritesConverted ==
    pc = "done" =>
        \A k \in DOMAIN data :
            LET sc == ScalarsOf(data[k])
                obj == heap[call.object]
                idx == IndexOfProperty(obj.className, k)
            IN (sc # << >> /\ WritableOrUndeclared(obj, k)) =>
                  IF idx = 0
                  THEN /\ k \in DOMAIN DynMap(obj)
                       /\ property(obj, k) = sc[Len(sc)]
                  ELSE LET type == MetaProperties(obj.className)[idx].type
                           cs == SelectSeq(sc, LAMBDA e : AsType(e, type) # << >>)
                       IN IF cs # << >>
                          THEN property(obj, k) = AsType(cs[Len(cs)], type)[1]
                          ELSE property(obj, k) = property(pre[call.object], k)

\* A string was written to the int property heightInCm and a list of two
\* scalars to the undeclared property vaccinated.
ScalarWritesWitness ==
    /\ pc = "done"
    /\ DOMAIN data = {"heightInCm", "vaccinated"}
    /\ data["heightInCm"] = StrV("2")
    /\ data["vaccinated"].t = "List"
    /\ heap[call.object].props["heightInCm"] = IntV(2)
    /\ DynMap(heap[call.object])["vaccinated"] = IntV(2)

(***************************************************************************)
(* C19  Factory registry.                                                  *)
(***************************************************************************)
\* The keys of the registerCreator calls so far.
Registered == {log[i][1] : i \in 1..Len(log)}

\* The creator of the last registerCreator call with key k.
LastRegistered(k) ==
    log[CHOOSE i \in 1..Len(log) :
            /\ log[i][1] = k
            /\ \A j \in (i + 1)..Len(log) : log[j][1] # k][2]

\* C19: hasCreator(k) is true exactly for the keys registered so far; right
\* after create(k), a registered k has given one new object, made by the
\* creator registered last under k, and an unregistered k has given NULL and
\* no object; and the map of creators is the one the registerCreator calls
\* made, also after deserialize has used the factory.
FactoryRegistry ==
    /\ \A k \in FactoryKeys \cup {"QObject"} :
          hasCreator(FactoryPtr(creators), k) <=> k \in Registered
    /\ call.op = "create" =>
          IF call.key \in Registered
          THEN /\ call.object = Len(heap)
               /\ Len(heap) = Len(pre) + 1
               /\ SubSeq(heap, 1, Len(pre)) = pre
               /\ heap[call.object] = NewQObject(LastRegistered(call.key), "")
          ELSE call.object = NULL /\ heap = pre
    /\ creators = [k \in Registered |-> LastRegistered(k)]

\* A key was registered twice with different creators, and deserialize has
\* created a child with the factory.
FactoryRegistryWitness ==
    /\ pc = "done"
    /\ call.withFactory
    /\ Len(heap) > Len(pre)
    /\ \E i, j \in 1..Len(log) :
          i < j /\ log[i][1] = log[j][1] /\ log[i][2] # log[j][2]

\* create has returned an object for a key registered twice.
FactoryCreateWitness ==
    /\ call.op = "create"
    /\ call.object # NULL
    /\ \E i, j \in 1..Len(log) :
          i < j /\ log[i][1] = call.key /\ log[j][1] = call.key
                /\ log[i][2] # log[j][2]

(***************************************************************************)
(* C20  Termination of reconcile.                                          *)
(***************************************************************************)
\* The number of map values a value holds, itself included, at every level.
RECURSIVE MapsIn(_)
RECURSIVE MapsInEntries(_, _)
RECURSIVE MapsInList(_)
MapsInEntries(m, keys) ==
    IF keys = << >> THEN 0
    ELSE MapsIn(m[Head(keys)]) + MapsInEntries(m, Tail(keys))

MapsInList(l) ==
    IF l = << >> THEN 0 ELSE MapsIn(Head(l)) + MapsInList(Tail(l))

MapsIn(value) ==
    IF value.t = "Map" THEN 1 + MapsInEntries(value.v, KeysOf(value.v))
    ELSE IF value.t = "List" THEN MapsInList(value.v)
    ELSE 0

\* The last deserialize call, run again from the heap before it with the
\* count of its recursive calls.
LastRun == deserializeRun(pre, call.object, data, LastFactory)

\* C20: deserialize(object, data, factory) runs to completion for every
\* document and tree: the run with the count ends in the heap of the call,
\* having made at most one recursive call for every map value of data, and
\* none when no entry of data is a map or a list.
CallsBounded ==
    pc = "done" =>
        /\ LastRun.heap = heap
        /\ LastRun.calls <= MapsInEntries(data, KeysOf(data))
        /\ (\A k \in DOMAIN data : data[k].t \notin {"Map", "List"}) =>
              LastRun.calls = 0

\* deserialize has run with one recursive call for each of the maps of a
\* document that nests a map in a map.
CallsBoundedWitness ==
    /\ pc = "done"
    /\ LastRun.calls >= 2
    /\ LastRun.calls = MapsInEntries(data, KeysOf(data))
    /\ \E k \in DOMAIN data :
          data[k].t = "Map" /\ \E n \in DOMAIN data[k].v : data[k].v[n].t = "Map"

\* deserialize has run on a document with a map that it dropped.
CallsDroppedWitness ==
    /\ pc = "done"
    /\ LastRun.calls < MapsInEntries(data, KeysOf(data))

(***************************************************************************)
(* C21  List-entry selection rule.                                         *)
(***************************************************************************)
\* The first element of a sequence of objects, or NULL.
FirstOrNull(q) == IF q = << >> THEN NULL ELSE Head(q)

\* The elements of the list l under key k applied to object o one after the
\* other: a map goes to the first child of class k, not yet consumed, that
\* has a name and whose name is the one the map declares; else to the first
\* unnamed child of class k not yet consumed; else to a child created for
\* it; a value that is not a map is written as property k.
RECURSIVE AppliedInTurn(_, _, _, _, _, _)
AppliedInTurn(h, o, k, l, consumed, f) ==
    IF l = << >> THEN h
    ELSE LET j == Head(l)
             free == SelectSeq(h[o].children,
                         LAMBDA c : h[c].className = k /\ c \notin consumed)
             byName == IF j.t = "Map" /\ "objectName" \in DOMAIN j.v
                       THEN FirstOrNull(SelectSeq(free, LAMBDA c :
                                /\ h[c].objectName # ""
                                /\ h[c].objectName = toString(j.v["objectName"])))
                       ELSE NULL
             unnamed == FirstOrNull(SelectSeq(free,
                                        LAMBDA c : h[c].objectName = ""))
             made == createChild(h, o, k, f)
             target == IF byName # NULL THEN byName
                       ELSE IF unnamed # NULL THEN unnamed
                       ELSE made.object
             h1 == IF byName = NULL /\ unnamed = NULL THEN made.heap ELSE h
         IN IF j.t # "Map"
            THEN AppliedInTurn(setProperty(h, o, k, j), o, k, Tail(l), consumed, f)
            ELSE IF target = NULL
            THEN AppliedInTurn(h, o, k, Tail(l), consumed, f)
            ELSE AppliedInTurn(deserialize(h1, target, j.v, f), o, k, Tail(l),
                               consumed \cup {target}, f)

\* The document has one entry, a list under key k.
IsOneList(k) == DOMAIN data = {k} /\ data[k].t = "List"

\* C21: for a list entry under key k, each map, from left to right, is
\* applied to the first not yet consumed named child of class k that carries
\* the name the map declares; otherwise to the first not yet consumed unnamed
\* child of class k; otherwise to a newly created child, which is made only
\* when both fail.
ListSelectionRule ==
    DecodedDocument =>
        \A k \in DOMAIN data :
            IsOneList(k) =>
                heap = AppliedInTurn(pre, call.object, k, data[k].v, {},
                                     LastFactory)

\* Two maps that declare the name a were applied to a child named a and to an
\* unnamed child of the class.
ListSelectionWitness ==
    /\ DecodedDocument
    /\ \E k \in DOMAIN data :
          /\ IsOneList(k)
          /\ Len(data[k].v) = 2
          /\ \A i \in 1..2 : /\ data[k].v[i].t = "Map"
                             /\ "objectName" \in DOMAIN data[k].v[i].v
                             /\ data[k].v[i].v["objectName"] = StrV("a")
          /\ \E c1, c2 \in Range(pre[call.object].children) :
                /\ pre[c1].className = k /\ pre[c1].objectName = "a"
                /\ pre[c2].className = k /\ pre[c2].objectName = ""
                /\ heap[c1] # pre[c1]
                /\ heap[c2] # pre[c2]

\* A map of a list was applied to a child created for it.
ListCreationWitness ==
    /\ DecodedDocument
    /\ \E k \in DOMAIN data : IsOneList(k) /\ k # "QObject"
    /\ Len(heap) > Len(pre)

(***************************************************************************)
(* C22  No creation when a type match exists.                              *)
(***************************************************************************)
\* The children of class k of the object that carry the name a map declares.
Carriers(h, o, k, m) ==
    IF "objectName" \in DOMAIN m
    THEN SelectSeq(ChildrenOfClass(h, o, k),
                   LAMBDA c : h[c].objectName = toString(m["objectName"]))
    ELSE << >>

\* The document has one entry, a map under key k.
IsBareMap(k) == DOMAIN data = {k} /\ data[k].t = "Map"

DirectChildrenOnly ==
    DecodedDocument =>
        \A k \in DOMAIN data :
            IsBareMap(k) =>
                LET o == call.object
                    m == data[k].v
                    made == createChild(pre, o, k, LastFactory)
                IN \/ heap = pre
                   \/ \E c \in Range(pre[o].children) :
                         heap = deserialize(pre, c, m, LastFactory)
                   \/ /\ made.object # NULL
                      /\ heap = deserialize(made.heap, made.object, m, LastFactory)

(***************************************************************************)
(* C24: the display name of a child created for an entry under key k.      *)
(***************************************************************************)
\* A document {k: entry} was deserialized and one object was created for it.
CreatedFor(k) ==
    /\ DecodedDocument
    /\ DOMAIN data = {k}
    /\ Len(MapsUnder(data, k)) = 1
    /\ Len(heap) = Len(pre) + 1

\* The object created by the last call.
CreatedChild == Len(pre) + 1

\* The name the created child has when the entry's objectName, if it has
\* one, is written over the name given.
NameAfter(k, given) ==
    LET m == MapsUnder(data, k)[1].v
    IN IF "objectName" \in DOMAIN m THEN toString(m["objectName"]) ELSE given

\* C24 (as stated): a node created through the factory for a Map entry under
\* key k is, after deserialize, a child of the object whose objectName is k,
\* unless the entry's own objectName sets another name.
DisplayKeyOfCreated ==
    \A k \in NamedKeys :
        CreatedFor(k) =>
            /\ heap[CreatedChild].parent = call.object
            /\ heap[CreatedChild].objectName = NameAfter(k, k)

\* C24 (amended): the created node is a child of the object; after
\* ObjectSerializerQt::deserialize its objectName is k, after the deserialize
\* of QtPropertySerializer it is the name its creator gave it (the empty
\* name), in both cases unless the entry's own objectName sets another name.
DisplayKeyByLibrary ==
    \A k \in NamedKeys :
        CreatedFor(k) =>
            /\ heap[CreatedChild].parent = call.object
            /\ heap[CreatedChild].objectName =
                  NameAfter(k, IF call.op = "ObjectSerializerQt::deserialize"
                               THEN k ELSE "")

\* A child was created under key "a" by ObjectSerializerQt::deserialize for
\* an entry without objectName.
DisplayKeyWitness ==
    /\ CreatedFor("a")
    /\ call.op = "ObjectSerializerQt::deserialize"
    /\ "objectName" \notin DOMAIN MapsUnder(data, "a")[1].v
    /\ heap[CreatedChild].objectName = "a"
(***************************************************************************)
(* C25: folding values under one key.                                      *)
(***************************************************************************)
\* The values folded under key k so far, in order.
FoldedUnder(k) ==
    LET calls == SelectSeq(log, LAMBDA e : e[1] = k)
    IN [i \in 1..Len(calls) |-> calls[i][2]]

\* The value that is folded for v: addMappedData of QtPropertySerializer
\* folds the map of the object for a QObject*.
FoldedAs(v) ==
    IF call.op = "addMappedData" /\ v.t = "QObjectStar"
    THEN MapV(serialize(heap, v.v, -1, TRUE))
    ELSE v

FoldedValues(k) == [i \in 1..Len(FoldedUnder(k)) |-> FoldedAs(FoldedUnder(k)[i])]

\* C25 (as stated): folding v1..vn under a key that the map lacks leaves v1
\* when n = 1 and the list <<v1, ..., vn>> of length n when n >= 2, for all
\* values, lists included; the entries under other keys are unchanged.
FoldOfValues ==
    \A k \in FoldKeys :
        LET vs == FoldedValues(k)
        IN /\ Len(vs) = 0 => k \notin DOMAIN data
           /\ Len(vs) = 1 => k \in DOMAIN data /\ data[k] = vs[1]
           /\ Len(vs) >= 2 => k \in DOMAIN data /\ data[k] = ListV(vs)

\* C25 (amended): as stated when v1 is not a list (the later values may be
\* lists); when v1 is a list L, the fold of v2..vn appends them to L: the
\* result is L \o <<v2, ..., vn>>, of length Len(L) + n - 1.
FoldOntoFirst ==
    \A k \in FoldKeys :
        LET vs == FoldedValues(k)
        IN /\ Len(vs) = 0 => k \notin DOMAIN data
           /\ Len(vs) = 1 => k \in DOMAIN data /\ data[k] = vs[1]
           /\ Len(vs) >= 2 =>
                 /\ k \in DOMAIN data
                 /\ data[k] = IF vs[1].t = "List"
                              THEN ListV(vs[1].v \o Tail(vs))
                              ELSE ListV(vs)

\* Three values that are not lists were folded under a, and another value
\* under b.
FoldWitness ==
    /\ Len(FoldedValues("a")) = 3
    /\ \A i \in 1..3 : FoldedValues("a")[i].t # "List"
    /\ data["a"] = ListV(FoldedValues("a"))

\* A value was folded under a after a list of two values.
FoldOntoListWitness ==
    /\ Len(FoldedValues("a")) = 2
    /\ FoldedValues("a")[1].t = "List"
    /\ Len(FoldedValues("a")[1].v) = 2
    /\ Len(data["a"].v) = 3
    /\ Len(FoldedValues("b")) = 1
(***************************************************************************)
(* C26: ObjectSerializerQt::deserialize of the map that                    *)
(* ObjectSerializerQt::serialize made of the same tree.                    *)
(***************************************************************************)
\* The map of object 1 was deserialized into object 1 with an empty factory.
NamedRoundTrip ==
    /\ pc = "done"
    /\ source = "ObjectSerializerQt"
    /\ call.op = "ObjectSerializerQt::deserialize"
    /\ creators = EmptyMap

\* The children of object 1 that serialize keyed as it keyed c, in order.
KeyedLike(c) ==
    SelectSeq(pre[1].children, LAMBDA x : childName(pre[x]) = childName(pre[c]))

\* The map that serialize made of the child c of object 1, as the host left
\* it: the one at the position of c among the maps under its key.
MapOfChild(c) ==
    LET i == CHOOSE j \in 1..Len(KeyedLike(c)) : KeyedLike(c)[j] = c
    IN MapsUnder(data, childName(pre[c]))[i].v

\* C26: deserialize(T, serialize(T)) of ObjectSerializerQt with an empty
\* factory applies the map of each child to the very child it was made from,
\* keyed by its objectName or, having no name, by its class name: a value the
\* host edited in the map is the child's property value afterwards, and no
\* child is created.
NameKeyedReachesChild ==
    NamedRoundTrip =>
        /\ Len(heap) = Len(pre)
        /\ \A c \in Range(pre[1].children) :
              /\ Len(MapsUnder(data, childName(pre[c]))) = Len(KeyedLike(c))
              /\ \A p \in DOMAIN pre[c].props :
                    p \in DOMAIN MapOfChild(c) => heap[c].props[p] = MapOfChild(c)[p]
(***************************************************************************)
(* C27: deserialize a second time.                                         *)
(***************************************************************************)
\* C27: for every tree, document and factory whose creators return childless
\* objects with empty objectName, a second deserialize right after the first
\* changes nothing: no child is created, no property changes.
Idempotence == pc = "again" => heap = pre
(***************************************************************************)
(* C28: one child per map of a list.                                       *)
(***************************************************************************)
\* The last deserialize, of a document with one list entry under key k, run
\* again from the heap before the call with the list of its targets.
ListRun(k) ==
    deserializeListTargets(pre, call.object, k, data[k].v,
        SelectSeq(ChildrenOfClass(pre, call.object, k),
                  LAMBDA c : pre[c].objectName # ""),
        SelectSeq(ChildrenOfClass(pre, call.object, k),
                  LAMBDA c : pre[c].objectName = ""),
        LastFactory, << >>)

\* C28: within the processing of one list entry no object receives more than
\* one map of the list: an existing child leaves its pool when it is taken,
\* and a child created for an earlier map is not selected for a later one.
OneNodePerElement ==
    DecodedDocument =>
        \A k \in DOMAIN data :
            IsOneList(k) =>
                /\ ListRun(k).heap = heap
                /\ Len(ListRun(k).targets) = Len(MapsUnder(data, k))
                /\ \A i, j \in 1..Len(ListRun(k).targets) :
                      (i < j /\ ListRun(k).targets[i] # NULL) =>
                          ListRun(k).targets[i] # ListRun(k).targets[j]

\* Two maps of a list went to an unnamed child of the object and to a child
\* created for the second.
OneNodePerElementWitness ==
    /\ DecodedDocument
    /\ \E k \in DOMAIN data :
          /\ IsOneList(k)
          /\ Len(ListRun(k).targets) = 2
          /\ ListRun(k).targets[1] \in Range(pre[call.object].children)
          /\ pre[ListRun(k).targets[1]].objectName = ""
          /\ ListRun(k).targets[2] > Len(pre)
          /\ "objectName" \notin DOMAIN data[k].v[2].v

\* Two maps of a list that declare the same name went to the child of that
\* name and to an unnamed child.
OneNodePerNameWitness ==
    /\ DecodedDocument
    /\ \E k \in DOMAIN data :
          /\ IsOneList(k)
          /\ Len(ListRun(k).targets) = 2
          /\ data[k].v[1] = data[k].v[2]
          /\ "objectName" \in DOMAIN data[k].v[1].v
          /\ ListRun(k).targets[1] \in Range(pre[call.object].children)
          /\ ListRun(k).targets[2] \in Range(pre[call.object].children)
          /\ pre[ListRun(k).targets[1]].objectName # ""
          /\ pre[ListRun(k).targets[2]].objectName = ""
(***************************************************************************)
(* C29: termination and size of serialize.                                 *)
(***************************************************************************)
RECURSIVE Height(_, _)
RECURSIVE MapNesting(_)
RECURSIVE MapNestingOver(_)
RECURSIVE CountMaps(_)
RECURSIVE CountMapsOver(_)

\* The largest of a set of naturals, 0 for the empty set.
Largest(S) == IF S = {} THEN 0 ELSE CHOOSE n \in S : \A m \in S : m <= n

\* The height of the subtree of an object: 0 without children.
Height(h, o) ==
    IF h[o].children = << >> THEN 0
    ELSE 1 + Largest({Height(h, c) : c \in Range(h[o].children)})

\* The maps nested in a value: 0 for a scalar, one more than its deepest
\* entry for a map; a list adds no level.
MapNesting(value) ==
    IF value.t = "Map"
    THEN 1 + MapNestingOver([i \in 1..Len(KeysOf(value.v)) |->
                                value.v[KeysOf(value.v)[i]]])
    ELSE IF value.t = "List" THEN MapNestingOver(value.v)
    ELSE 0

MapNestingOver(values) ==
    IF values = << >> THEN 0
    ELSE Largest({MapNesting(Head(values)), MapNestingOver(Tail(values))})

\* The number of maps in a value, itself included.
CountMaps(value) ==
    IF value.t = "Map"
    THEN 1 + CountMapsOver([i \in 1..Len(KeysOf(value.v)) |->
                               value.v[KeysOf(value.v)[i]]])
    ELSE IF value.t = "List" THEN CountMapsOver(value.v)
    ELSE 0

CountMapsOver(values) ==
    IF values = << >> THEN 0
    ELSE CountMaps(Head(values)) + CountMapsOver(Tail(values))

\* serialize was called, and has returned or will never return.
SerializeCalled == call.op = "serialize" /\ pc \in {"loaded", "diverged"}

\* C29: serialize terminates, its recursion is at most as deep as the subtree
\* of the object is high, and its result holds at most one map per object of
\* the subtree, also when property values point to objects.
EncodeTerminatesBounded ==
    SerializeCalled =>
        /\ pc = "loaded"
        /\ MapNesting(MapV(data)) - 1 <= Height(snap, call.object)
        /\ CountMaps(MapV(data)) <= 1 + Cardinality(Descendants(snap, call.object))

\* serialize was called on a person whose pets point to the person.
EncodeDivergesWitness ==
    /\ pc = "diverged"
    /\ 1 \in PointedTo(snap[1])
(***************************************************************************)
(* C30: the list overload of deserialize.                                  *)
(***************************************************************************)
\* deserialize(objects, data, ...) has returned.
ListDecoded == pc = "done" /\ call.op = "deserialize(objects)"

\* The maps of the list data, in order: the k-th has position k.
ListMaps == SelectSeq(data, LAMBDA e : e.t = "Map")

\* The object at position k of the list before the call, or NULL.
ListedAt(k) == IF k <= Len(preObjects) THEN preObjects[k] ELSE NULL

\* The class an object for an empty position is made of, or "" when none can
\* be made: the creator key if it has a creator, else the class of the first
\* object of the list if that has one.
MadeOf ==
    LET present == SelectSeq(preObjects, LAMBDA o : o # NULL)
    IN IF ~call.withFactory THEN ""
       ELSE IF call.key # "" /\ call.key \in DOMAIN creators
       THEN creators[call.key]
       ELSE IF present # << >> /\ pre[Head(present)].className \in DOMAIN creators
       THEN creators[pre[Head(present)].className]
       ELSE ""

\* The k-th map was applied to the object o, which was in the list before.
AppliedTo(k, o) == heap[o] = deserialize(pre, o, ListMaps[k].v, LastFactory)[o]

\* The object o was made for the k-th map, which was applied to it.
MadeFor(k, o) ==
    /\ o > Len(pre)
    /\ heap[o] = deserialize(<<NewQObject(MadeOf, "")>>, 1, ListMaps[k].v,
                             LastFactory)[1]

\* The objects of the list keep their places, and the k-th map is applied to
\* the object at position k.
ListedKeepPlaces ==
    /\ Len(objects) >= Len(preObjects)
    /\ \A k \in 1..Len(preObjects) :
          preObjects[k] # NULL =>
             /\ objects[k] = preObjects[k]
             /\ k <= Len(ListMaps) => AppliedTo(k, preObjects[k])

\* C30 (as stated): the k-th map of data is applied to objects[k], values
\* that are not maps are skipped and do not count; an object of the list
\* stays at its index; the list never shrinks and grows by exactly the
\* number of objects created; when a map has no object at its position and
\* none can be created, no later map is applied.
ListOverload ==
    ListDecoded =>
        /\ \A k \in 1..Len(preObjects) : preObjects[k] # NULL => objects[k] = preObjects[k]
        /\ \A k \in 1..Len(ListMaps) :
              (ListedAt(k) # NULL /\ \A i \in 1..(k - 1) :
                                        ListedAt(i) # NULL \/ MadeOf # "") =>
                  AppliedTo(k, ListedAt(k))
        /\ Len(objects) >= Len(preObjects)
        /\ Len(objects) - Len(preObjects) = Len(heap) - Len(pre)
        /\ \A k \in 1..Len(ListMaps) :
              (ListedAt(k) = NULL /\ MadeOf = "") =>
                  /\ Len(heap) = Len(pre)
                  /\ \A i \in (k + 1)..Len(preObjects) :
                        preObjects[i] # NULL => heap[preObjects[i]] = pre[preObjects[i]]

\* C30 (amended): the k-th map of data is applied to objects[k], values that
\* are not maps are skipped and do not count; an object of the list stays at
\* its index.  When an object can be created, one is created for every map
\* whose position holds no object: it fills a null entry of the list, or is
\* appended when the position is beyond the end, so that the list grows by
\* the number of objects created beyond its end only.  When none can be
\* created, a map whose position holds a null entry is dropped and the maps
\* after it are still applied to the objects at their positions; the maps
\* whose position is beyond the end of the list are dropped, and the list is
\* unchanged.
ListOverloadFilling ==
    ListDecoded =>
        /\ ListedKeepPlaces
        /\ MadeOf = "" => /\ objects = preObjects
                          /\ Len(heap) = Len(pre)
        /\ MadeOf # "" =>
              /\ Len(objects) = Largest({Len(preObjects), Len(ListMaps)})
              /\ \A k \in 1..Len(objects) :
                    IF ListedAt(k) # NULL THEN TRUE
                    ELSE IF k <= Len(ListMaps) THEN MadeFor(k, objects[k])
                    ELSE objects[k] = NULL
              /\ Len(heap) - Len(pre) =
                    Cardinality({k \in 1..Len(ListMaps) : ListedAt(k) = NULL})

\* An object was made for a null entry of the list and another was appended.
ListOverloadWitness ==
    /\ ListDecoded
    /\ Len(preObjects) = 2
    /\ preObjects[1] = NULL
    /\ preObjects[2] # NULL
    /\ Len(ListMaps) = 3
    /\ Len(objects) = 3
    /\ objects[1] > Len(pre)
    /\ objects[3] > Len(pre)

\* Without a factory the map of a null entry was dropped and the next map
\* was applied to the object after it.
ListOverloadDropWitness ==
    /\ ListDecoded
    /\ ~call.withFactory
    /\ Len(preObjects) = 2
    /\ preObjects[1] = NULL
    /\ preObjects[2] # NULL
    /\ Len(ListMaps) = 2
    /\ heap[preObjects[2]] # pre[preObjects[2]]

====
